---- MODULE Spec2Model ----
(***************************************************************************)
(* A model of the errors library: the tagged-pointer Error handle, the     *)
(* reference-counted node hierarchy with copy-on-write, the chain walks    *)
(* (message, Is, As) and the binary chain codec.                           *)
(***************************************************************************)
EXTENDS Integers, Sequences, FiniteSets, TLC

VARIABLES
  hp,     \* the heap: node address -> node (ErrorImpl and its subclasses)
  h,      \* the program's Error variables: slot -> bits_, or Dead
  th,     \* per-thread Error variables: thread -> slot -> bits_, or Dead
  pc,     \* per-thread position inside the operation it is executing
  reg,    \* per-thread locals of the operation it is executing
  input,  \* the byte string handed to Deserialize
  dz,     \* locals of the last Deserialize call (reserve size, loop trips)
  rs,     \* the program's Result<T> variables: slot -> Result, or DeadResult
  rv      \* the program's Result<void> variables: slot -> bits_ of error_, or Dead

vars == <<hp, h, th, pc, reg, input, dz, rs, rv>>

(***************************************************************************)
(* Bounds of the model.                                                    *)
(***************************************************************************)
MaxNodes == 4      \* dynamic nodes alive at once
NumSlots == 2      \* Error variables of the single-threaded program
NumThreads == 2    \* threads of the concurrent program
NumResults == 2    \* Result<T> variables of the single-threaded program
SlotsPerThread == 3  \* Error variables of each thread
MaxInputLen == 30  \* bytes of the longest Deserialize input

Slots == 1..NumSlots
Threads == 1..NumThreads

\* A destroyed (or not yet constructed) Error variable holds no bits at all.
Dead == -1
\* nullptr, as an ErrorImpl* and as an address no allocation returns.
NullImpl == 0

(***************************************************************************)
(* Addresses.  ErrorImpl is at least 2-byte aligned, so every node address *)
(* is even; a sentinel handle stores its node's address with bit 0 set.    *)
(***************************************************************************)
Addrs == {2 * i : i \in 1..MaxNodes}
SentinelAddrs == {2 * MaxNodes + 2, 2 * MaxNodes + 4}
AllAddrs == Addrs \cup SentinelAddrs

\* Message texts: the empty text and two distinct one-character texts.
Msgs == {<< >>, <<"a">>, <<"b">>}
SentinelMsg(addr) == IF addr = 2 * MaxNodes + 2 THEN <<"p">> ELSE <<"n">>

\* Payload types: NetworkDetails (not WireSerializable), LoginRequest
\* (WireSerializable).  "none" is a node that is no DetailedError.
PayTypes == {"Net", "Login"}
PayVals == {0, 1}

is_nil(bits) == bits = 0
is_sentinel(bits) == bits % 2 = 1
is_dynamic(bits) == bits # 0 /\ bits % 2 = 0
\* bits_ & ~1
get_impl(bits) == bits - (bits % 2)
\* Error(const ErrorImpl* static_impl): bits_ = impl | 1
SentinelBits(addr) == addr + 1

\* Memory that holds no node: never allocated, or returned by delete.
FreeNode == [st |-> "free", msg |-> << >>, inner |-> 0, rc |-> 0,
             ptype |-> "none", pval |-> 0]
\* StaticSentinelError: constant message, no inner_, ref_count_{1}.
StaticSentinelError(addr) ==
  [st |-> "static", msg |-> SentinelMsg(addr), inner |-> 0, rc |-> 1,
   ptype |-> "none", pval |-> 0]
\* The text storage of a DynamicError: size_ and the active member of data_,
\* the inline buffer of SSO_CAPACITY + 1 chars (zero-initialised) or a heap
\* buffer of size_ + 1 chars, both ended by a NUL.
SSO_CAPACITY == 23
NUL == "NUL"
is_sso(size_) == size_ <= SSO_CAPACITY
\* DynamicError::set_string
set_string(msg) ==
  [size_ |-> Len(msg),
   data_ |-> IF is_sso(Len(msg))
               THEN [i \in 1..(SSO_CAPACITY + 1) |->
                       IF i <= Len(msg) THEN msg[i] ELSE NUL]
               ELSE msg \o <<NUL>>]
\* A view that never looks past the inline buffer.
dynamic_message_view_inline(str) ==
  SubSeq(str.data_, 1, IF is_sso(str.size_) THEN str.size_ ELSE SSO_CAPACITY)
\* DynamicError::message_view: size_ chars of the active buffer.
dynamic_message_view(str) == SubSeq(str.data_, 1, str.size_)

\* DynamicError(msg, inner) / DetailedError(msg, details, inner): ref_count_{1};
\* msg is what message_view reads from the storage set_string filled.
DynamicError(msg, inner, ptype, pval) ==
  [st |-> "live", msg |-> dynamic_message_view(set_string(msg)),
   inner |-> inner, rc |-> 1,
   ptype |-> ptype, pval |-> pval]
\* What is left of memory after undefined behaviour touched it (a delete of
\* memory that holds no node, a reference count updated in freed memory): no
\* outcome is excluded, so the address is never trusted or reused again.
CorruptNode == [FreeNode EXCEPT !.st = "corrupt"]

EmptyHeap ==
  [a \in AllAddrs |-> IF a \in SentinelAddrs THEN StaticSentinelError(a) ELSE FreeNode]

\* operator new: the lowest address that holds no node, or NullImpl when
\* MaxNodes nodes are alive.
FreeAddrs(heap) == {a \in Addrs : heap[a].st = "free"}
Alloc(heap) ==
  IF FreeAddrs(heap) = {} THEN NullImpl
  ELSE CHOOSE a \in FreeAddrs(heap) : \A b \in FreeAddrs(heap) : a <= b

\* A node is there to be used: a live dynamic node or a sentinel.
Usable(heap, impl) == heap[impl].st \in {"live", "static"}

(***************************************************************************)
(* Intrusive reference counting.                                           *)
(***************************************************************************)
add_ref(heap, impl) ==
  IF Usable(heap, impl) THEN [heap EXCEPT ![impl].rc = @ + 1]
  ELSE [heap EXCEPT ![impl] = CorruptNode]
\* fetch_sub(1): the heap after the decrement ...
release(heap, impl) ==
  IF Usable(heap, impl) THEN [heap EXCEPT ![impl].rc = @ - 1]
  ELSE [heap EXCEPT ![impl] = CorruptNode]
\* ... and its result, fetch_sub(1) == 1, evaluated on the heap before it.
\* A release that compares the count left behind with 1.
release_last_stale(heap, impl) == heap[impl].rc = 2
release_last(heap, impl) == heap[impl].rc = 1
use_count(heap, impl) == heap[impl].rc

\* A copy constructor that forgets the reference count.
CopyCtorNoAddRef(heap, bits) == heap
\* A copy constructor that counts every non-nil handle, tagged ones included.
CopyCtorAnyNode(heap, bits) ==
  IF bits # 0 THEN [heap EXCEPT ![get_impl(bits)].rc = @ + 1] ELSE heap

\* Error(const Error& other): share the pointer, add_ref a dynamic node.
CopyCtor(heap, bits) == IF is_dynamic(bits) THEN add_ref(heap, bits) ELSE heap

\* ~Error and the node destructor it may run: delete impl runs ~DynamicError,
\* which destroys the member inner_, and returns the memory.
RECURSIVE DtorError(_, _)
DeleteImplShallow(heap, impl) ==
  IF heap[impl].st = "live"
    THEN [heap EXCEPT ![impl] = FreeNode]
    ELSE [heap EXCEPT ![impl] = CorruptNode]
DeleteImpl(heap, impl) ==
  IF heap[impl].st = "live"
    THEN DtorError([heap EXCEPT ![impl] = FreeNode], heap[impl].inner)
    ELSE [heap EXCEPT ![impl] = CorruptNode]
DtorError(heap, bits) ==
  IF is_dynamic(bits)
    THEN IF release_last(heap, bits)
           THEN DeleteImpl(release(heap, bits), bits)
           ELSE release(heap, bits)
    ELSE heap

(***************************************************************************)
(* Chain walks.  A "const Error*" is modelled by the bits_ of the Error it *)
(* points to, nullptr by NullPtr.                                          *)
(***************************************************************************)
NullPtr == -2

\* A DynamicError::unwrap that returns &inner_ without testing inner_.
impl_unwrap_untested(heap, impl) ==
  IF heap[impl].st = "static" THEN NullPtr ELSE heap[impl].inner

\* ErrorImpl::unwrap (nullptr) / DynamicError::unwrap (inner_ ? &inner_ : nullptr)
impl_unwrap(heap, impl) ==
  IF heap[impl].st = "static" THEN NullPtr
  ELSE IF heap[impl].inner # 0 THEN heap[impl].inner ELSE NullPtr

\* Error::unwrap / Error::Unwrap
unwrap(heap, bits) ==
  IF get_impl(bits) # NullImpl THEN impl_unwrap(heap, get_impl(bits)) ELSE NullPtr

\* Error::operator bool
OperatorBool(bits) == bits # 0

\* Error::Nil: the bits_ of the static default-constructed Error.
Nil == 0

\* message_view of a node
message_view(heap, impl) == heap[impl].msg

\* Error::what
what(heap, bits) ==
  IF get_impl(bits) # NullImpl THEN message_view(heap, get_impl(bits)) ELSE << >>

Separator == <<":", " ">>
NilText == <<"(", "n", "i", "l", ")">>

\* First pass of Error::message: [len, layers] summed over the walk.
RECURSIVE MessageMeasure(_, _, _, _)
MessageMeasure(heap, current, total_len, layer_count) ==
  IF current = NullPtr \/ get_impl(current) = NullImpl
    THEN [len |-> total_len, layers |-> layer_count]
    ELSE MessageMeasure(heap, unwrap(heap, current),
                        total_len + Len(message_view(heap, get_impl(current))),
                        layer_count + 1)

\* The size Error::message reserves before filling.
MessageReserve(heap, bits) ==
  LET m == MessageMeasure(heap, bits, 0, 0)
  IN IF m.layers > 1 THEN m.len + (m.layers - 1) * 2 ELSE m.len

\* if (!result.empty()) result += ": ";  result.append(view)
MessageAppend(result, view) ==
  IF result # << >> THEN result \o Separator \o view ELSE result \o view

\* Second pass of Error::message: the fill loop.
RECURSIVE MessageFill(_, _, _)
MessageFill(heap, current, result) ==
  IF current = NullPtr \/ get_impl(current) = NullImpl
    THEN result
    ELSE MessageFill(heap, unwrap(heap, current),
                     MessageAppend(result, message_view(heap, get_impl(current))))

\* Error::message
message(heap, bits) ==
  IF bits = 0 THEN NilText ELSE MessageFill(heap, bits, << >>)

\* ErrorImpl::matches: the default hook; no node type overrides it.
matches(heap, impl, target) == FALSE

\* An equality of the outermost texts.
ErrorEqByText(lhs, rhs) ==
  (IF get_impl(lhs) # NullImpl THEN hp[get_impl(lhs)].msg ELSE << >>)
    = (IF get_impl(rhs) # NullImpl THEN hp[get_impl(rhs)].msg ELSE << >>)

\* operator==
ErrorEq(lhs, rhs) == lhs = rhs

\* One iteration of the loop of Is: the layer itself, then its hook.
IsLayer(heap, curr, target) ==
  \/ ErrorEq(curr, target)
  \/ (get_impl(curr) # NullImpl /\ matches(heap, get_impl(curr), target))

\* A walk that gives up after the outermost layer.
IsOutermostOnly(heap, curr, target) ==
  curr # NullPtr /\ IsLayer(heap, curr, target)

\* Is(err, target)
RECURSIVE Is(_, _, _)
Is(heap, curr, target) ==
  IF curr = NullPtr THEN FALSE
  ELSE IF IsLayer(heap, curr, target) THEN TRUE
  ELSE Is(heap, unwrap(heap, curr), target)

\* A get_payload that answers with whatever payload the layer owns, without
\* comparing the type token.
get_payload_untyped(heap, impl, T) ==
  IF heap[impl].ptype # "none" THEN impl ELSE NullImpl

\* ErrorImpl::get_payload (nullptr) / DetailedError<T>::get_payload
get_payload(heap, impl, T) ==
  IF heap[impl].ptype = T THEN impl ELSE NullImpl

\* As<T>(const Error&): the node that owns the payload found, or NullImpl.
RECURSIVE AsConst(_, _, _)
AsConst(heap, current, T) ==
  IF current = NullPtr THEN NullImpl
  ELSE IF get_impl(current) # NullImpl /\ get_payload(heap, get_impl(current), T) # NullImpl
    THEN get_impl(current)
  ELSE AsConst(heap, unwrap(heap, current), T)

\* DynamicError::clone / DetailedError<T>::clone into the fresh address copy:
\* the copy constructor copies inner_ (Error's copy constructor), the text and
\* the payload; the new node starts with ref_count_{1}.
clone(heap, impl, copy) ==
  [CopyCtor(heap, heap[impl].inner) EXCEPT
     ![copy] = DynamicError(heap[impl].msg, heap[impl].inner,
                            heap[impl].ptype, heap[impl].pval)]

\* A get_mutable_impl that hands out the shared node without cloning it.
get_mutable_impl_in_place(heap, bits) ==
  [hp |-> heap, bits |-> bits,
   impl |-> IF is_dynamic(bits) THEN bits ELSE NullImpl, oom |-> FALSE]

\* A get_mutable_impl that clones whatever the reference count is.
get_mutable_impl_always_clone(heap, bits) ==
  IF ~is_dynamic(bits)
    THEN [hp |-> heap, bits |-> bits, impl |-> NullImpl, oom |-> FALSE]
  ELSE IF Alloc(heap) = NullImpl
    THEN [hp |-> heap, bits |-> bits, impl |-> NullImpl, oom |-> TRUE]
  ELSE [hp |-> release(clone(heap, bits, Alloc(heap)), bits),
        bits |-> Alloc(heap), impl |-> Alloc(heap), oom |-> FALSE]

\* Error::get_mutable_impl on an Error holding bits: the heap after it, the bits_
\* it leaves in the Error, the pointer it returns; oom when the clone it needs
\* cannot be allocated within MaxNodes.
get_mutable_impl(heap, bits) ==
  IF ~is_dynamic(bits)
    THEN [hp |-> heap, bits |-> bits, impl |-> NullImpl, oom |-> FALSE]
  ELSE IF use_count(heap, bits) > 1
    THEN IF Alloc(heap) = NullImpl
           THEN [hp |-> heap, bits |-> bits, impl |-> NullImpl, oom |-> TRUE]
           ELSE [hp |-> release(clone(heap, bits, Alloc(heap)), bits),
                 bits |-> Alloc(heap), impl |-> Alloc(heap), oom |-> FALSE]
  ELSE [hp |-> heap, bits |-> bits, impl |-> bits, oom |-> FALSE]

\* The Error a walk of the mutable As stands on: a program variable, or the
\* inner_ member of a node.
SlotLoc(s) == [kind |-> "slot", at |-> s]
InnerLoc(impl) == [kind |-> "inner", at |-> impl]
LocBits(heap, hs, loc) ==
  IF loc.kind = "slot" THEN hs[loc.at] ELSE heap[loc.at].inner

\* The loop of As<T>(Error&): get_mutable_impl on every Error of the walk,
\* storing the bits_ it leaves, until a layer owns a payload of type T.
RECURSIVE AsMutableWalk(_, _, _, _)
AsMutableWalk(heap, hs, loc, T) ==
  LET r == get_mutable_impl(heap, LocBits(heap, hs, loc))
      heap1 == IF loc.kind = "inner"
                 THEN [r.hp EXCEPT ![loc.at].inner = r.bits] ELSE r.hp
      hs1 == IF loc.kind = "slot" THEN [hs EXCEPT ![loc.at] = r.bits] ELSE hs
      next == unwrap(heap1, r.bits)
  IN IF r.oom
       THEN [hp |-> heap, h |-> hs, found |-> NullImpl, oom |-> TRUE]
     ELSE IF r.impl # NullImpl /\ get_payload(heap1, r.impl, T) # NullImpl
       THEN [hp |-> heap1, h |-> hs1, found |-> r.impl, oom |-> FALSE]
     ELSE IF next = NullPtr
       THEN [hp |-> heap1, h |-> hs1, found |-> NullImpl, oom |-> FALSE]
     ELSE AsMutableWalk(heap1, hs1, InnerLoc(get_impl(r.bits)), T)

\* An As<T>(Error&) that starts the mutable walk without searching first.
AsMutableWithoutSearch(heap, hs, s, T) == AsMutableWalk(heap, hs, SlotLoc(s), T)

\* As<T>(Error&): the const search first, then the mutable walk.
AsMutable(heap, hs, s, T) ==
  IF AsConst(heap, hs[s], T) = NullImpl
    THEN [hp |-> heap, h |-> hs, found |-> NullImpl, oom |-> FALSE]
    ELSE AsMutableWalk(heap, hs, SlotLoc(s), T)

(***************************************************************************)
(* The single-threaded program: a sequence of operations on the Error      *)
(* variables h[1..NumSlots].                                               *)
(***************************************************************************)
ThreadSlots == 1..SlotsPerThread
\* The locals of an operation in progress: the node it works on, the clone it
\* made, the Error variable it was called on.
NoLocals == [impl |-> NullImpl, copy |-> NullImpl, slot |-> 0]
ThreadsIdle ==
  /\ th = [t \in Threads |-> [i \in ThreadSlots |-> Dead]]
  /\ pc = [t \in Threads |-> "idle"]
  /\ reg = [t \in Threads |-> NoLocals]
CodecIdle ==
  /\ input = << >>
  /\ dz = [reserved |-> 0, iters |-> 0, layers |-> << >>]  \* no call made

\* A Result<T>: has_value_ and the active member of the union of value_ and
\* error_ (the other one holds no object).
DeadResult == [alive |-> FALSE, has_value |-> FALSE, value |-> 0, error |-> Dead]
ValueResult(v) == [alive |-> TRUE, has_value |-> TRUE, value |-> v, error |-> Dead]
ErrorResult(bits) == [alive |-> TRUE, has_value |-> FALSE, value |-> 0, error |-> bits]
Results == 1..NumResults
NoResults ==
  /\ rs = [r \in Results |-> DeadResult]
  /\ rv = [r \in Results |-> Dead]

Init ==
  /\ hp = EmptyHeap
  /\ h = [s \in Slots |-> Dead]
  /\ ThreadsIdle
  /\ CodecIdle
  /\ NoResults

OtherUnchanged == UNCHANGED <<th, pc, reg, input, dz, rs, rv>>

\* Error(): a Nil handle.
DefaultCtor(d) ==
  /\ h[d] = Dead
  /\ h' = [h EXCEPT ![d] = 0]
  /\ UNCHANGED hp
  /\ OtherUnchanged

\* errors::Error err = kSentinel;  (copy of the sentinel's global handle)
SentinelCopy(d, sa) ==
  /\ h[d] = Dead
  /\ hp' = CopyCtor(hp, SentinelBits(sa))
  /\ h' = [h EXCEPT ![d] = SentinelBits(sa)]
  /\ OtherUnchanged

\* A factory that stores in inner_ the handle it is about to return.
MakeNodeSelfLinked(heap, msg, inner, ptype, pval) ==
  [heap EXCEPT ![Alloc(heap)] =
     DynamicError(msg, IF inner = 0 THEN 0 ELSE Alloc(heap), ptype, pval)]

\* The node factories: Error(new DynamicError(msg, std::move(inner))) and
\* Error(new DetailedError<T>(msg, payload, std::move(inner))).
MakeNode(heap, msg, inner, ptype, pval) ==
  [heap EXCEPT ![Alloc(heap)] = DynamicError(msg, inner, ptype, pval)]

\* auto d = New(m);
New(d, m) ==
  /\ h[d] = Dead
  /\ Alloc(hp) # NullImpl
  /\ hp' = MakeNode(hp, m, 0, "none", 0)
  /\ h' = [h EXCEPT ![d] = Alloc(hp)]
  /\ OtherUnchanged

\* auto d = NewWithPayload(m, T{v});  (WrapWithPayload of a copy of Nil)
NewWithPayload(d, m, T, v) ==
  /\ h[d] = Dead
  /\ Alloc(hp) # NullImpl
  /\ hp' = MakeNode(CopyCtor(hp, 0), m, 0, T, v)
  /\ h' = [h EXCEPT ![d] = Alloc(hp)]
  /\ OtherUnchanged

\* The by-value parameter "Error inner" built from the argument s: copied
\* (Wrap(s, m)) or moved (Wrap(std::move(s), m)).
ArgHeap(heap, bits, mv) == IF mv THEN heap ELSE CopyCtor(heap, bits)
ArgSource(hs, s, mv) == IF mv THEN [hs EXCEPT ![s] = 0] ELSE hs

\* auto d = Wrap(s, m);  /  auto d = Wrap(std::move(s), m);
Wrap(d, s, m, mv) ==
  /\ h[d] = Dead /\ h[s] # Dead
  /\ Alloc(hp) # NullImpl
  /\ hp' = MakeNode(ArgHeap(hp, h[s], mv), m, h[s], "none", 0)
  /\ h' = [ArgSource(h, s, mv) EXCEPT ![d] = Alloc(hp)]
  /\ OtherUnchanged

\* auto d = WrapWithPayload(s, m, T{v});
WrapWithPayload(d, s, m, T, v, mv) ==
  /\ h[d] = Dead /\ h[s] # Dead
  /\ Alloc(hp) # NullImpl
  /\ hp' = MakeNode(ArgHeap(hp, h[s], mv), m, h[s], T, v)
  /\ h' = [ArgSource(h, s, mv) EXCEPT ![d] = Alloc(hp)]
  /\ OtherUnchanged

\* Error d = s;
CopyConstruct(d, s) ==
  /\ h[d] = Dead /\ h[s] # Dead
  /\ hp' = CopyCtor(hp, h[s])
  /\ h' = [h EXCEPT ![d] = h[s]]
  /\ OtherUnchanged

\* A move constructor that leaves its source as it was.
MoveConstructKeepsSource(d, s) ==
  /\ h[d] = Dead /\ h[s] # Dead
  /\ hp' = CopyCtor(hp, h[s])
  /\ h' = [h EXCEPT ![d] = h[s]]
  /\ OtherUnchanged

\* Error d = std::move(s);
MoveConstruct(d, s) ==
  /\ h[d] = Dead /\ h[s] # Dead
  /\ h' = [h EXCEPT ![d] = h[s], ![s] = 0]
  /\ UNCHANGED hp
  /\ OtherUnchanged

\* A copy assignment that releases the old node before it copies the source.
CopyAssignReleaseFirst(heap, dbits, sbits) == CopyCtor(DtorError(heap, dbits), sbits)

\* The heap after operator=(const Error&) on an Error holding dbits, from
\* another Error holding sbits: Error tmp(other); *this = std::move(tmp);
CopyAssignHeap(heap, dbits, sbits) == DtorError(CopyCtor(heap, sbits), dbits)

\* d = s;  (d = d included: this == &other, nothing happens)
\* The heap and the variables after  d = s;  (this != &other is d # s)
CopyAssignEffect(heap, hs, d, s) ==
  IF d = s
    THEN [hp |-> heap, h |-> hs]
    ELSE [hp |-> CopyAssignHeap(heap, hs[d], hs[s]),
          h |-> [hs EXCEPT ![d] = hs[s]]]

CopyAssign(d, s) ==
  /\ h[d] # Dead /\ h[s] # Dead
  /\ hp' = CopyAssignEffect(hp, h, d, s).hp
  /\ h' = CopyAssignEffect(hp, h, d, s).h
  /\ OtherUnchanged

\* The nodes of the chain of an Error holding bits, by the Unwrap walk.
RECURSIVE ChainImpls(_, _)
ChainImpls(heap, current) ==
  IF current = NullPtr \/ get_impl(current) = NullImpl THEN {}
  ELSE {get_impl(current)} \cup ChainImpls(heap, unwrap(heap, current))

\* d = *p;  where p is a non-null result of Unwrap() on a layer of s's chain,
\* that is, a reference to the inner_ member of the node n.
CopyAssignFromInner(d, s, n) ==
  /\ h[d] # Dead /\ h[s] # Dead
  /\ n \in ChainImpls(hp, h[s])
  /\ impl_unwrap(hp, n) # NullPtr
  /\ hp' = CopyAssignHeap(hp, h[d], hp[n].inner)
  /\ h' = [h EXCEPT ![d] = hp[n].inner]
  /\ OtherUnchanged

\* A move assignment without the test this != &other.
MoveAssignEffectUnguarded(heap, hs, d, s) ==
  [hp |-> DtorError(heap, hs[d]),
   h |-> [[hs EXCEPT ![d] = hs[s]] EXCEPT ![s] = 0]]

\* The heap and the variables after  d = std::move(s);
MoveAssignEffect(heap, hs, d, s) ==
  IF d = s
    THEN [hp |-> heap, h |-> hs]
    ELSE [hp |-> DtorError(heap, hs[d]),
          h |-> [hs EXCEPT ![d] = hs[s], ![s] = 0]]

\* A move assignment that copies and leaves the source as it was.
MoveAssignAsCopy(d, s) == CopyAssign(d, s)

\* d = std::move(s);  (d = std::move(d) included)
MoveAssign(d, s) ==
  /\ h[d] # Dead /\ h[s] # Dead
  /\ hp' = MoveAssignEffect(hp, h, d, s).hp
  /\ h' = MoveAssignEffect(hp, h, d, s).h
  /\ OtherUnchanged

\* The variable s goes out of scope.
Destroy(s) ==
  /\ h[s] # Dead
  /\ hp' = DtorError(hp, h[s])
  /\ h' = [h EXCEPT ![s] = Dead]
  /\ OtherUnchanged

\* auto* p = As<T>(s); if (p) *p = T{w};
MutableAs(s, T, w) ==
  /\ h[s] # Dead
  /\ LET r == AsMutable(hp, h, s, T)
     IN /\ ~r.oom
        /\ h' = r.h
        /\ hp' = IF r.found # NullImpl
                   THEN [r.hp EXCEPT ![r.found].pval = w] ELSE r.hp
  /\ OtherUnchanged

(***************************************************************************)
(* Programs.  Every program runs the same operations; they differ in the   *)
(* inputs they draw, so that each stays small enough to explore fully:     *)
(*   Next      payloads of one type that are written to, one text, one     *)
(*             sentinel;                                                   *)
(*   NextText  every text, both sentinels, no payloads.                    *)
(***************************************************************************)
PlainText == {<<"a">>}
CowTypes == {"Net"}
InitVals == {0}
OneSentinel == {2 * MaxNodes + 2}

Lifecycle ==
  \/ \E d \in Slots : DefaultCtor(d)
  \/ \E d \in Slots, s \in Slots : CopyConstruct(d, s)
  \/ \E d \in Slots, s \in Slots : MoveConstruct(d, s)
  \/ \E d \in Slots, s \in Slots : CopyAssign(d, s)
  \/ \E d \in Slots, s \in Slots, n \in Addrs : CopyAssignFromInner(d, s, n)
  \/ \E d \in Slots, s \in Slots : MoveAssign(d, s)
  \/ \E s \in Slots : Destroy(s)

Next ==
  \/ Lifecycle
  \/ \E d \in Slots, sa \in OneSentinel : SentinelCopy(d, sa)
  \/ \E d \in Slots, m \in PlainText : New(d, m)
  \/ \E d \in Slots, m \in PlainText, T \in CowTypes, v \in InitVals :
       NewWithPayload(d, m, T, v)
  \/ \E d \in Slots, s \in Slots, m \in PlainText, mv \in BOOLEAN : Wrap(d, s, m, mv)
  \/ \E d \in Slots, s \in Slots, m \in PlainText, T \in CowTypes, v \in InitVals,
        mv \in BOOLEAN : WrapWithPayload(d, s, m, T, v, mv)
  \/ \E s \in Slots, T \in CowTypes, w \in PayVals : MutableAs(s, T, w)

Spec == Init /\ [][Next]_vars

NextText ==
  \/ Lifecycle
  \/ \E d \in Slots, sa \in SentinelAddrs : SentinelCopy(d, sa)
  \/ \E d \in Slots, m \in Msgs : New(d, m)
  \/ \E d \in Slots, s \in Slots, m \in Msgs, mv \in BOOLEAN : Wrap(d, s, m, mv)

SpecText == Init /\ [][NextText]_vars

\* Texts on both sides of the inline threshold: n chars, the last one "b".
Chars(n) == [i \in 1..n |-> IF i = n THEN "b" ELSE "a"]
ThresholdMsgs == {Chars(0), Chars(SSO_CAPACITY), Chars(SSO_CAPACITY + 1)}

NextString ==
  \/ \E d \in Slots : DefaultCtor(d)
  \/ \E d \in Slots, sa \in OneSentinel : SentinelCopy(d, sa)
  \/ \E d \in Slots, m \in ThresholdMsgs : New(d, m)
  \/ \E d \in Slots, s \in Slots, m \in ThresholdMsgs, mv \in BOOLEAN :
       Wrap(d, s, m, mv)
  \/ \E s \in Slots : Destroy(s)

SpecString == Init /\ [][NextString]_vars

(***************************************************************************)
(* The concurrent program.  Every thread owns two Error variables; at the  *)
(* start the first of each references one shared single-layer node that    *)
(* carries a payload (the copies were handed to the threads before they    *)
(* started).  An operation is split at its atomic accesses to the shared   *)
(* node: the fetch_add of add_ref, the fetch_sub of release, the load of   *)
(* use_count.  Thread t writes the payload value t.                        *)
(***************************************************************************)
SharedNode == 2

InitShared ==
  /\ hp = [EmptyHeap EXCEPT
             ![SharedNode] = [DynamicError(<<"a">>, 0, "Net", 0) EXCEPT !.rc = NumThreads]]
  /\ h = [s \in Slots |-> Dead]
  /\ th = [t \in Threads |-> [i \in ThreadSlots |-> IF i = 1 THEN SharedNode ELSE Dead]]
  /\ pc = [t \in Threads |-> "idle"]
  /\ reg = [t \in Threads |-> NoLocals]
  /\ CodecIdle
  /\ NoResults

SeqUnchanged == UNCHANGED <<h, input, dz, rs, rv>>

\* Error(const Error& other) : bits_(other.bits_)
TCopyBits(t, j, i) ==
  /\ pc[t] = "idle" /\ th[t][j] = Dead /\ th[t][i] # Dead
  /\ th' = [th EXCEPT ![t][j] = th[t][i]]
  /\ pc' = [pc EXCEPT ![t] = "copy_add_ref"]
  /\ reg' = [reg EXCEPT ![t] = [NoLocals EXCEPT !.impl = th[t][i], !.slot = j]]
  /\ UNCHANGED hp
  /\ SeqUnchanged

\* ... { if (is_dynamic()) impl->add_ref(); }
TCopyAddRef(t) ==
  /\ pc[t] = "copy_add_ref"
  /\ hp' = CopyCtor(hp, reg[t].impl)
  /\ pc' = [pc EXCEPT ![t] = "idle"]
  /\ reg' = [reg EXCEPT ![t] = NoLocals]
  /\ UNCHANGED th
  /\ SeqUnchanged

\* ~Error: if (is_dynamic()) { if (impl->release()) ...
TDtorRelease(t, i) ==
  /\ pc[t] = "idle" /\ th[t][i] # Dead
  /\ th' = [th EXCEPT ![t][i] = Dead]
  /\ IF is_dynamic(th[t][i])
       THEN /\ hp' = release(hp, th[t][i])
            /\ IF release_last(hp, th[t][i])
                 THEN /\ pc' = [pc EXCEPT ![t] = "dtor_delete"]
                      /\ reg' = [reg EXCEPT ![t] = [NoLocals EXCEPT !.impl = th[t][i]]]
                 ELSE UNCHANGED <<pc, reg>>
       ELSE UNCHANGED <<hp, pc, reg>>
  /\ SeqUnchanged

\* ... delete impl; } }
TDtorDelete(t) ==
  /\ pc[t] = "dtor_delete"
  /\ hp' = DeleteImpl(hp, reg[t].impl)
  /\ pc' = [pc EXCEPT ![t] = "idle"]
  /\ reg' = [reg EXCEPT ![t] = NoLocals]
  /\ UNCHANGED th
  /\ SeqUnchanged

\* As<T>(Error&): the const search finds the payload (in the outermost layer:
\* the chains of this program have one layer).
TAsSearch(t, i, T) ==
  /\ pc[t] = "idle" /\ th[t][i] # Dead
  /\ AsConst(hp, th[t][i], T) # NullImpl
  /\ pc' = [pc EXCEPT ![t] = "as_use_count"]
  /\ reg' = [reg EXCEPT ![t] = [NoLocals EXCEPT !.impl = th[t][i], !.slot = i]]
  /\ UNCHANGED <<hp, th>>
  /\ SeqUnchanged

\* get_mutable_impl: if (impl->use_count() > 1)
TAsUseCount(t) ==
  /\ pc[t] = "as_use_count"
  /\ pc' = [pc EXCEPT ![t] = IF use_count(hp, reg[t].impl) > 1
                               THEN "as_clone" ELSE "as_write"]
  /\ UNCHANGED <<hp, th, reg>>
  /\ SeqUnchanged

\* auto* copy = impl->clone();
TAsClone(t) ==
  /\ pc[t] = "as_clone"
  /\ Alloc(hp) # NullImpl
  /\ hp' = clone(hp, reg[t].impl, Alloc(hp))
  /\ reg' = [reg EXCEPT ![t].copy = Alloc(hp)]
  /\ pc' = [pc EXCEPT ![t] = "as_release"]
  /\ UNCHANGED th
  /\ SeqUnchanged

\* impl->release();  bits_ = copy;  return copy;   (the result of release()
\* is not looked at)
TAsRelease(t) ==
  /\ pc[t] = "as_release"
  /\ hp' = release(hp, reg[t].impl)
  /\ th' = [th EXCEPT ![t][reg[t].slot] = reg[t].copy]
  /\ reg' = [reg EXCEPT ![t].impl = reg[t].copy]
  /\ pc' = [pc EXCEPT ![t] = "as_write"]
  /\ SeqUnchanged

\* payload = impl->get_payload(type_id<T>());  the caller writes through it.
TAsWrite(t) ==
  /\ pc[t] = "as_write"
  /\ hp' = [hp EXCEPT ![reg[t].impl].pval = t]
  /\ pc' = [pc EXCEPT ![t] = "idle"]
  /\ reg' = [reg EXCEPT ![t] = NoLocals]
  /\ UNCHANGED th
  /\ SeqUnchanged

\* Threads that copy and destroy their own handles.
NextReaders ==
  \/ \E t \in Threads, j \in ThreadSlots, i \in ThreadSlots : TCopyBits(t, j, i)
  \/ \E t \in Threads : TCopyAddRef(t)
  \/ \E t \in Threads, i \in ThreadSlots : TDtorRelease(t, i)
  \/ \E t \in Threads : TDtorDelete(t)

SpecReaders == InitShared /\ [][NextReaders]_vars

\* Threads that also call mutable As<T> on their own handles.
NextCow ==
  \/ NextReaders
  \/ \E t \in Threads, i \in ThreadSlots, T \in CowTypes : TAsSearch(t, i, T)
  \/ \E t \in Threads : TAsUseCount(t)
  \/ \E t \in Threads : TAsClone(t)
  \/ \E t \in Threads : TAsRelease(t)
  \/ \E t \in Threads : TAsWrite(t)

SpecCow == InitShared /\ [][NextCow]_vars

(***************************************************************************)
(* The codec.  A byte is a number in 0..255.  A uint32_t is kept as its    *)
(* two 16-bit halves, so that counts and lengths up to 2^32-1 are compared *)
(* exactly; memcpy lays it out least significant byte first.               *)
(***************************************************************************)
U32(hi, lo) == [hi |-> hi, lo |-> lo]
U32Zero == U32(0, 0)
UINT32_MAX == U32(65535, 65535)
\* std::memcpy(buf, &val, 4)
ToBytes(u) == <<u.lo % 256, u.lo \div 256, u.hi % 256, u.hi \div 256>>
\* std::memcpy(&value, deserialized_str.data(), 4)
FromBytes(b) == U32(b[3] + 256 * b[4], b[1] + 256 * b[2])
\* A comparison made after a conversion of the count to int.
U32LessSigned(i, u) == u.hi < 32768 /\ (u.hi > 0 \/ i < u.lo)
\* i < count, for an i below 2^16
U32Less(i, u) == u.hi > 0 \/ i < u.lo
\* len > deserialized_str.size()
U32Greater(u, n) == u.hi > 0 \/ u.lo > n
\* std::min(static_cast<size_t>(count), max_layers)
U32Min(u, n) == IF U32Greater(u, n) THEN n ELSE u.lo

\* The characters of a std::string built from bytes: the model writes the
\* letters of its texts as strings, every other byte stays the byte.
Chr(b) ==
  CASE b = 76 -> "L" [] b = 97 -> "a" [] b = 98 -> "b" [] b = 110 -> "n"
    [] b = 112 -> "p" [] OTHER -> b
\* The byte of a character.
Ord(c) ==
  CASE c = "L" -> 76 [] c = "a" -> 97 [] c = "b" -> 98 [] c = "n" -> 110
    [] c = "p" -> 112 [] OTHER -> c
AsBytes(text) == [i \in 1..Len(text) |-> Ord(text[i])]
Text(bytes) == [i \in 1..Len(bytes) |-> Chr(bytes[i])]

DropPrefix(data, n) == SubSeq(data, n + 1, Len(data))

\* read_u32: the flag "valid" is cleared on a short read, never set.
read_u32(data, valid) ==
  IF Len(data) < 4
    THEN [value |-> U32Zero, rest |-> data, valid |-> FALSE]
    ELSE [value |-> FromBytes(SubSeq(data, 1, 4)), rest |-> DropPrefix(data, 4),
          valid |-> valid]

read_str(data, valid) ==
  LET r == read_u32(data, valid)
  IN  IF ~r.valid \/ U32Greater(r.value, Len(r.rest))
        THEN [str |-> << >>, rest |-> r.rest, valid |-> FALSE]
        ELSE [str |-> SubSeq(r.rest, 1, r.value.lo),
              rest |-> DropPrefix(r.rest, r.value.lo), valid |-> TRUE]

\* A cap counted in bytes instead of layers.
max_layers_in_bytes(data) == Len(data)
\* const size_t max_layers = data.size() / 12;
MinLayerSize == 12
max_layers(data) == Len(data) \div MinLayerSize

\* for (uint32_t i = 0; i < count && valid; ++i) { three read_str; push_back }
RECURSIVE DecodeLoop(_, _, _, _, _)
DecodeLoop(i, count, data, valid, layers) ==
  IF U32Less(i, count) /\ valid
    THEN LET m == read_str(data, valid)
             t == read_str(m.rest, m.valid)
             p == read_str(t.rest, t.valid)
         IN  DecodeLoop(i + 1, count, p.rest, p.valid,
                        IF p.valid
                          THEN Append(layers, [msg |-> m.str, type_url |-> t.str,
                                               payload |-> p.str])
                          ELSE layers)
    ELSE [iters |-> i, valid |-> valid, layers |-> layers]

\* A decoder that rejects the whole input after any failed read.
ReturnsNilStrict(loop) == loop.layers = << >> \/ ~loop.valid
\* if (layers.empty()) return {};
ReturnsNil(loop) == loop.layers = << >>

NoDecode == [reserved |-> 0, iters |-> 0, layers |-> << >>]

\* Deserialize up to the rebuilding of the chain: the size reserved, the
\* trips of the loop and the layers to rebuild (none: Nil is returned).
Decode(data) ==
  IF Len(data) < 4 THEN NoDecode
  ELSE LET c == read_u32(data, TRUE)
       IN  IF ~c.valid \/ c.value = U32Zero THEN NoDecode
           ELSE LET loop == DecodeLoop(0, c.value, c.rest, c.valid, << >>)
                IN  [reserved |-> U32Min(c.value, max_layers(c.rest)),
                     iters |-> loop.iters,
                     layers |-> IF ReturnsNil(loop) THEN << >> ELSE loop.layers]

\* A rebuild that does not link the layer to the chain built so far.
RebuildLayerUnlinked(heap, err, layer) ==
  MakeNode(heap, Text(layer.msg), 0, "none", 0)

\* One step of "build chain from innermost to outermost": a DetailedError
\* holding a SerializedPayload when the type url is not empty, a plain
\* DynamicError otherwise; the chain built so far is moved in as inner.
RebuildLayer(heap, err, layer) ==
  IF layer.type_url # << >>
    THEN MakeNode(heap, Text(layer.msg), err, "SerializedPayload",
                  [type_url |-> Text(layer.type_url), data |-> layer.payload])
    ELSE MakeNode(heap, Text(layer.msg), err, "none", 0)

RECURSIVE Rebuild(_, _, _, _)
Rebuild(heap, err, layers, i) ==
  IF i = 0 THEN [hp |-> heap, bits |-> err]
  ELSE Rebuild(RebuildLayer(heap, err, layers[i]), Alloc(heap), layers, i - 1)

\* The caller's bytes: a count field, then length-prefixed fields, written the
\* way Serialize writes them.
CountChoices == {U32Zero, U32(0, 1), U32(0, 2), UINT32_MAX}
FieldChoices == {<<U32Zero, << >>>>, <<U32(0, 1), <<97>>>>, <<UINT32_MAX, << >>>>}
NoCall == \A s \in Slots : h[s] = Dead
\* The variable that receives the result.
CodecSlots == {1}

PutCount(c) ==
  /\ NoCall /\ input = << >>
  /\ input' = ToBytes(c)
  /\ UNCHANGED <<hp, h, th, pc, reg, dz, rs, rv>>

PutField(f) ==
  /\ NoCall /\ Len(input) >= 4
  /\ Len(input) + 4 + Len(f[2]) <= MaxInputLen
  /\ input' = input \o ToBytes(f[1]) \o f[2]
  /\ UNCHANGED <<hp, h, th, pc, reg, dz, rs, rv>>

\* Error d = Deserialize(std::string_view(buf).substr(0, n));
Deserialize(d, n) ==
  /\ NoCall /\ n <= Len(input)
  /\ LET data == SubSeq(input, 1, n)
         r == Decode(data)
         out == Rebuild(hp, 0, r.layers, Len(r.layers))
     IN  /\ Cardinality(FreeAddrs(hp)) >= Len(r.layers)
         /\ input' = data
         /\ dz' = r
         /\ hp' = out.hp
         /\ h' = [h EXCEPT ![d] = out.bits]
  /\ UNCHANGED <<th, pc, reg, rs, rv>>

NextCodec ==
  \/ \E c \in CountChoices : PutCount(c)
  \/ \E f \in FieldChoices : PutField(f)
  \/ \E d \in CodecSlots, n \in 0..MaxInputLen : Deserialize(d, n)

SpecCodec == Init /\ [][NextCodec]_vars

(***************************************************************************)
(* Serialization.  Payload types: "Net" (NetworkDetails of the tests) has  *)
(* no SerializeAsString / GetTypeName, "Login" (LoginRequest) and          *)
(* "SerializedPayload" have both.  A SerializedPayload value is the record *)
(* [type_url, data].                                                       *)
(***************************************************************************)
WireSerializable(T) == T \in {"Login", "SerializedPayload"}
\* details_.GetTypeName()
GetTypeName(T, v) == IF T = "SerializedPayload" THEN AsBytes(v.type_url) ELSE <<76>>
\* details_.SerializeAsString()
SerializeAsString(T, v) == IF T = "SerializedPayload" THEN v.data ELSE <<48 + v>>

HasPayload(heap, impl) == heap[impl].st = "live" /\ heap[impl].ptype # "none"

\* A DetailedError that inherits is_serializable from DynamicError.
is_serializable_inherited(heap, impl) == heap[impl].st # "static"

\* ErrorImpl (false) / DynamicError (true) / DetailedError<T> (WireSerializable<T>)
is_serializable(heap, impl) ==
  IF heap[impl].st = "static" THEN FALSE
  ELSE IF HasPayload(heap, impl) THEN WireSerializable(heap[impl].ptype)
  ELSE TRUE

\* ErrorImpl / DetailedError<T>::payload_type_url
payload_type_url(heap, impl) ==
  IF HasPayload(heap, impl) /\ WireSerializable(heap[impl].ptype)
    THEN GetTypeName(heap[impl].ptype, heap[impl].pval) ELSE << >>

\* ErrorImpl / DetailedError<T>::serialize_payload
serialize_payload(heap, impl) ==
  IF HasPayload(heap, impl) /\ WireSerializable(heap[impl].ptype)
    THEN SerializeAsString(heap[impl].ptype, heap[impl].pval) ELSE << >>

\* IsSerializable(err)
RECURSIVE IsSerializableWalk(_, _)
IsSerializableWalk(heap, current) ==
  IF current = NullPtr THEN TRUE
  ELSE IF get_impl(current) = NullImpl \/ ~is_serializable(heap, get_impl(current))
    THEN FALSE
  ELSE IsSerializableWalk(heap, unwrap(heap, current))

IsSerializable(heap, bits) == IF bits = 0 THEN TRUE ELSE IsSerializableWalk(heap, bits)

\* A writer that leaves out the length prefix of an empty string.
write_bytes_unless_empty(out, strv) ==
  IF strv = << >> THEN out ELSE out \o ToBytes(U32(0, Len(strv))) \o strv

\* write_bytes: write_u32(size) then the bytes
write_bytes(out, strv) == out \o ToBytes(U32(0, Len(strv))) \o strv

\* The layer loop of Serialize: three fields for every layer reached, ++count.
RECURSIVE SerializeWalk(_, _, _, _)
SerializeWalk(heap, current, out, count) ==
  IF current = NullPtr \/ get_impl(current) = NullImpl
    THEN [out |-> out, count |-> count]
    ELSE SerializeWalk(heap, unwrap(heap, current),
           write_bytes(write_bytes(write_bytes(out,
               AsBytes(message_view(heap, get_impl(current)))),
               payload_type_url(heap, get_impl(current))),
               serialize_payload(heap, get_impl(current))),
           count + 1)

\* Serialize(err): out.resize(4), the walk, then memcpy of count over out[0..3]
Serialize(heap, bits) ==
  IF bits = 0 THEN << >>
  ELSE LET w == SerializeWalk(heap, bits, <<0, 0, 0, 0>>, 0)
       IN  ToBytes(U32(0, w.count)) \o DropPrefix(w.out, 4)

\* The program of the round trip: chains are built in the Error variables
\* while no bytes have been produced, leaving room for the decoded copy; then
\* Error y = Deserialize(Serialize(x)).
WireTexts == {<< >>, <<"a">>}
WireTypes == {"Net", "Login"}
WireUrls == {<< >>, <<"a">>}
WireData == {<< >>, <<97>>}
Building == input = << >> /\ 2 * (MaxNodes - Cardinality(FreeAddrs(hp)) + 1) <= MaxNodes

WireSentinel(d, sa) == input = << >> /\ SentinelCopy(d, sa)
WireNew(d, m) == Building /\ New(d, m)
WireNewWithPayload(d, m, T, v) == Building /\ NewWithPayload(d, m, T, v)
WireNewSerialized(d, m, u, b) ==
  Building /\ NewWithPayload(d, m, "SerializedPayload", [type_url |-> u, data |-> b])
WireWrap(d, s, m) == Building /\ Wrap(d, s, m, TRUE)
WireWrapWithPayload(d, s, m, T, v) == Building /\ WrapWithPayload(d, s, m, T, v, TRUE)
WireWrapSerialized(d, s, m, u, b) ==
  Building /\ WrapWithPayload(d, s, m, "SerializedPayload",
                              [type_url |-> u, data |-> b], TRUE)
WireDestroy(s) == input = << >> /\ Destroy(s)

\* Error y = Deserialize(Serialize(x));  (x is the first variable, y the second)
RoundTrip(x, y) ==
  /\ h[x] # Dead /\ h[y] = Dead
  /\ LET data == Serialize(hp, h[x])
         r == Decode(data)
         out == Rebuild(hp, 0, r.layers, Len(r.layers))
     IN  /\ Cardinality(FreeAddrs(hp)) >= Len(r.layers)
         /\ input' = data
         /\ dz' = r
         /\ hp' = out.hp
         /\ h' = [h EXCEPT ![y] = out.bits]
  /\ UNCHANGED <<th, pc, reg, rs, rv>>

NextWire ==
  \/ \E d \in Slots, sa \in OneSentinel : WireSentinel(d, sa)
  \/ \E d \in Slots, m \in WireTexts : WireNew(d, m)
  \/ \E d \in Slots, m \in WireTexts, T \in WireTypes, v \in InitVals :
       WireNewWithPayload(d, m, T, v)
  \/ \E d \in Slots, m \in WireTexts, u \in WireUrls, b \in WireData :
       WireNewSerialized(d, m, u, b)
  \/ \E d \in Slots, s \in Slots, m \in WireTexts : WireWrap(d, s, m)
  \/ \E d \in Slots, s \in Slots, m \in WireTexts, T \in WireTypes, v \in InitVals :
       WireWrapWithPayload(d, s, m, T, v)
  \/ \E d \in Slots, s \in Slots, m \in WireTexts, u \in WireUrls, b \in WireData :
       WireWrapSerialized(d, s, m, u, b)
  \/ \E s \in Slots : WireDestroy(s)
  \/ RoundTrip(1, 2)

SpecWire == Init /\ [][NextWire]_vars

(***************************************************************************)
(* Result<T>, for a T that is copied and moved like an int.                *)
(***************************************************************************)
ResultValues == {0, 1}
ErrUnchanged == UNCHANGED <<th, pc, reg, input, dz, rv>>

\* Result<T> r = v;
ResultFromValue(r, v) ==
  /\ ~rs[r].alive
  /\ rs' = [rs EXCEPT ![r] = ValueResult(v)]
  /\ UNCHANGED <<hp, h>>
  /\ ErrUnchanged

\* Result<T> r = s;  /  Result<T> r = std::move(s);   (assert(err): s non-nil)
ResultFromError(r, s, mv) ==
  /\ ~rs[r].alive /\ h[s] # Dead /\ h[s] # 0
  /\ hp' = ArgHeap(hp, h[s], mv)
  /\ h' = ArgSource(h, s, mv)
  /\ rs' = [rs EXCEPT ![r] = ErrorResult(h[s])]
  /\ ErrUnchanged

\* void destroy(): the active member is destroyed.
ResultDestroyHeap(heap, res) ==
  IF res.has_value THEN heap ELSE DtorError(heap, res.error)

\* Result(const Result& other)
ResultCopy(res) == res
ResultCopyHeap(heap, res) ==
  IF res.has_value THEN heap ELSE CopyCtor(heap, res.error)
\* Result(Result&& other): has_value_ is copied, the active member is moved;
\* what is left in other.
ResultMovedFrom(res) ==
  IF res.has_value THEN res ELSE [res EXCEPT !.error = 0]

\* Result<T> r = o;
ResultCopyConstruct(r, o) ==
  /\ ~rs[r].alive /\ rs[o].alive
  /\ hp' = ResultCopyHeap(hp, rs[o])
  /\ rs' = [rs EXCEPT ![r] = ResultCopy(rs[o])]
  /\ UNCHANGED h
  /\ ErrUnchanged

\* Result<T> r = std::move(o);
ResultMoveConstruct(r, o) ==
  /\ ~rs[r].alive /\ rs[o].alive
  /\ rs' = [rs EXCEPT ![r] = rs[o], ![o] = ResultMovedFrom(rs[o])]
  /\ UNCHANGED <<hp, h>>
  /\ ErrUnchanged

\* Result<T>::ok, value, error
ok(res) == res.has_value
value(res) == res.value
error(res) == res.error

\* A copy assignment that installs the member of other and keeps its own
\* has_value_.
ResultCopyAssignKeepsTag(r, o) ==
  /\ rs[r].alive /\ rs[o].alive
  /\ IF r = o
       THEN UNCHANGED <<hp, rs>>
       ELSE /\ hp' = ResultDestroyHeap(
                       ResultDestroyHeap(ResultCopyHeap(hp, rs[o]), rs[r]),
                       ResultMovedFrom(ResultCopy(rs[o])))
            /\ rs' = [rs EXCEPT ![r] = [ResultCopy(rs[o]) EXCEPT
                                          !.has_value = rs[r].has_value]]
  /\ UNCHANGED h
  /\ ErrUnchanged

\* r = o;   (Result tmp(other); destroy(); the member of tmp is moved in;
\* tmp, moved from, is destroyed)
ResultCopyAssign(r, o) ==
  /\ rs[r].alive /\ rs[o].alive
  /\ IF r = o
       THEN UNCHANGED <<hp, rs>>
       ELSE /\ hp' = ResultDestroyHeap(
                       ResultDestroyHeap(ResultCopyHeap(hp, rs[o]), rs[r]),
                       ResultMovedFrom(ResultCopy(rs[o])))
            /\ rs' = [rs EXCEPT ![r] = ResultCopy(rs[o])]
  /\ UNCHANGED h
  /\ ErrUnchanged

\* r = std::move(o);
ResultMoveAssign(r, o) ==
  /\ rs[r].alive /\ rs[o].alive
  /\ IF r = o
       THEN UNCHANGED <<hp, rs>>
       ELSE /\ hp' = ResultDestroyHeap(hp, rs[r])
            /\ rs' = [rs EXCEPT ![r] = rs[o], ![o] = ResultMovedFrom(rs[o])]
  /\ UNCHANGED h
  /\ ErrUnchanged

\* Error d = std::move(r).error();   (assert(!has_value_))
ResultTakeError(d, r) ==
  /\ h[d] = Dead /\ rs[r].alive /\ ~rs[r].has_value
  /\ h' = [h EXCEPT ![d] = rs[r].error]
  /\ rs' = [rs EXCEPT ![r].error = 0]
  /\ UNCHANGED hp
  /\ ErrUnchanged

\* Error d = r.error();   (assert(!has_value_))
ResultReadError(d, r) ==
  /\ h[d] = Dead /\ rs[r].alive /\ ~rs[r].has_value
  /\ hp' = CopyCtor(hp, rs[r].error)
  /\ h' = [h EXCEPT ![d] = rs[r].error]
  /\ UNCHANGED rs
  /\ ErrUnchanged

\* ~Result()
ResultDestroy(r) ==
  /\ rs[r].alive
  /\ hp' = ResultDestroyHeap(hp, rs[r])
  /\ rs' = [rs EXCEPT ![r] = DeadResult]
  /\ UNCHANGED h
  /\ ErrUnchanged

NextResult ==
  \/ \E d \in Slots, m \in PlainText : New(d, m)
  \/ \E d \in Slots, sa \in OneSentinel : SentinelCopy(d, sa)
  \/ \E s \in Slots : Destroy(s)
  \/ \E r \in Results, v \in ResultValues : ResultFromValue(r, v)
  \/ \E r \in Results, s \in Slots, mv \in BOOLEAN : ResultFromError(r, s, mv)
  \/ \E r \in Results, o \in Results : ResultCopyConstruct(r, o)
  \/ \E r \in Results, o \in Results : ResultMoveConstruct(r, o)
  \/ \E r \in Results, o \in Results : ResultCopyAssign(r, o)
  \/ \E r \in Results, o \in Results : ResultMoveAssign(r, o)
  \/ \E d \in Slots, r \in Results : ResultTakeError(d, r)
  \/ \E d \in Slots, r \in Results : ResultReadError(d, r)
  \/ \E r \in Results : ResultDestroy(r)

SpecResult == Init /\ [][NextResult]_vars

(***************************************************************************)
(* Result<void>: one member, Error error_; its copy and move operations    *)
(* are the implicit ones, which copy and move error_.                      *)
(***************************************************************************)
VoidUnchanged == UNCHANGED <<th, pc, reg, input, dz, rs>>

\* Result<void>::ok
void_ok(bits) == ~OperatorBool(bits)

\* Result<void> r;   (success)
VoidDefault(r) ==
  /\ rv[r] = Dead
  /\ rv' = [rv EXCEPT ![r] = 0]
  /\ UNCHANGED <<hp, h>>
  /\ VoidUnchanged

\* Result<void> r = s;  /  Result<void> r = std::move(s);  (assert(error_))
VoidFromError(r, s, mv) ==
  /\ rv[r] = Dead /\ h[s] # Dead /\ h[s] # 0
  /\ hp' = ArgHeap(hp, h[s], mv)
  /\ h' = ArgSource(h, s, mv)
  /\ rv' = [rv EXCEPT ![r] = h[s]]
  /\ VoidUnchanged

\* Result<void> r = o;
VoidCopyConstruct(r, o) ==
  /\ rv[r] = Dead /\ rv[o] # Dead
  /\ hp' = CopyCtor(hp, rv[o])
  /\ rv' = [rv EXCEPT ![r] = rv[o]]
  /\ UNCHANGED h
  /\ VoidUnchanged

\* Result<void> r = std::move(o);
VoidMoveConstruct(r, o) ==
  /\ rv[r] = Dead /\ rv[o] # Dead
  /\ rv' = [rv EXCEPT ![r] = rv[o], ![o] = 0]
  /\ UNCHANGED <<hp, h>>
  /\ VoidUnchanged

\* r = o;
VoidCopyAssign(r, o) ==
  /\ rv[r] # Dead /\ rv[o] # Dead
  /\ hp' = CopyAssignEffect(hp, rv, r, o).hp
  /\ rv' = CopyAssignEffect(hp, rv, r, o).h
  /\ UNCHANGED h
  /\ VoidUnchanged

\* r = std::move(o);
VoidMoveAssign(r, o) ==
  /\ rv[r] # Dead /\ rv[o] # Dead
  /\ hp' = MoveAssignEffect(hp, rv, r, o).hp
  /\ rv' = MoveAssignEffect(hp, rv, r, o).h
  /\ UNCHANGED h
  /\ VoidUnchanged

\* Error d = std::move(r).error();   (assert(error_))
VoidTakeError(d, r) ==
  /\ h[d] = Dead /\ rv[r] # Dead /\ ~void_ok(rv[r])
  /\ h' = [h EXCEPT ![d] = rv[r]]
  /\ rv' = [rv EXCEPT ![r] = 0]
  /\ UNCHANGED hp
  /\ VoidUnchanged

\* Error d = r.error();   (assert(error_))
VoidReadError(d, r) ==
  /\ h[d] = Dead /\ rv[r] # Dead /\ ~void_ok(rv[r])
  /\ hp' = CopyCtor(hp, rv[r])
  /\ h' = [h EXCEPT ![d] = rv[r]]
  /\ UNCHANGED rv
  /\ VoidUnchanged

\* ~Result()
VoidDestroy(r) ==
  /\ rv[r] # Dead
  /\ hp' = DtorError(hp, rv[r])
  /\ rv' = [rv EXCEPT ![r] = Dead]
  /\ UNCHANGED h
  /\ VoidUnchanged

NextVoid ==
  \/ \E d \in Slots, m \in PlainText : New(d, m)
  \/ \E d \in Slots, sa \in OneSentinel : SentinelCopy(d, sa)
  \/ \E s \in Slots : Destroy(s)
  \/ \E r \in Results : VoidDefault(r)
  \/ \E r \in Results, s \in Slots, mv \in BOOLEAN : VoidFromError(r, s, mv)
  \/ \E r \in Results, o \in Results : VoidCopyConstruct(r, o)
  \/ \E r \in Results, o \in Results : VoidMoveConstruct(r, o)
  \/ \E r \in Results, o \in Results : VoidCopyAssign(r, o)
  \/ \E r \in Results, o \in Results : VoidMoveAssign(r, o)
  \/ \E d \in Slots, r \in Results : VoidTakeError(d, r)
  \/ \E d \in Slots, r \in Results : VoidReadError(d, r)
  \/ \E r \in Results : VoidDestroy(r)

SpecVoid == Init /\ [][NextVoid]_vars

(***************************************************************************)
(* Vocabulary of the claims.                                               *)
(***************************************************************************)
LiveSlots == {s \in Slots : h[s] # Dead}
LiveNodes == {a \in Addrs : hp[a].st = "live"}

\* The handles a caller can name as an argument: Nil, the sentinels' global
\* handles, the program's variables and the inner_ members of live nodes.
Handles ==
  {0} \cup {SentinelBits(a) : a \in SentinelAddrs}
      \cup {h[s] : s \in LiveSlots} \cup {hp[a].inner : a \in LiveNodes}

\* The layers of a chain as a set of handles: the least set that holds the
\* handle itself and, with every dynamic layer, its non-nil inner handle.
LayerStep(R) == R \cup {hp[b].inner : b \in {x \in R : is_dynamic(x) /\ hp[x].inner # 0}}
RECURSIVE LayerClosure(_, _)
LayerClosure(R, k) == IF k = 0 THEN R ELSE LayerClosure(LayerStep(R), k - 1)
Layers(bits) == LayerClosure({bits}, MaxNodes)

\* The texts of the layers of a non-nil chain, outermost first.
RECURSIVE LayerTexts(_)
LayerTexts(bits) ==
  IF is_sentinel(bits) THEN <<hp[get_impl(bits)].msg>>
  ELSE IF hp[bits].inner = 0 THEN <<hp[bits].msg>>
  ELSE <<hp[bits].msg>> \o LayerTexts(hp[bits].inner)

\* Texts joined by exactly one ": " between each pair of neighbours.
RECURSIVE Joined(_)
Joined(texts) ==
  IF Len(texts) = 1 THEN texts[1]
  ELSE texts[1] \o <<":", " ">> \o Joined(Tail(texts))

(***************************************************************************)
(* C1.  For every non-nil handle e and every text m, the empty text        *)
(* included, Wrap(e, m).message() is m, then ": ", then e.message(); and   *)
(* message() of every non-nil chain is the texts of its layers, outermost  *)
(* first, with exactly one ": " between each pair of adjacent layers.      *)
(***************************************************************************)
C1_MessageJoinsEveryLayer ==
  /\ \A n \in LiveNodes :
       hp[n].inner # 0 =>
         message(hp, n) = hp[n].msg \o <<":", " ">> \o message(hp, hp[n].inner)
  /\ \A s \in LiveSlots :
       h[s] # 0 => message(hp, h[s]) = Joined(LayerTexts(h[s]))

(***************************************************************************)
(* C2.  Is(chain, target) is true exactly when some layer of the chain     *)
(* (the chain itself included) is the same handle value as target - the    *)
(* identical node, or both Nil - or that layer's matches hook accepts the  *)
(* target; and Is(e, Nil) is false for every non-nil e.                    *)
(***************************************************************************)
C2_IsFindsIdentityAtAnyDepth ==
  \A e \in Handles :
    /\ \A target \in Handles :
         Is(hp, e, target) <=>
           \E l \in Layers(e) :
              \/ l = target
              \/ (l # 0 /\ matches(hp, get_impl(l), target))
    /\ (e # 0 => ~Is(hp, e, 0))

\* A chain of three layers that ends in a sentinel: Is finds the sentinel and
\* the innermost dynamic layer below the top, and rejects the other sentinel.
C2_Witness ==
  \E s \in LiveSlots, sa \in SentinelAddrs, sb \in SentinelAddrs :
    /\ is_dynamic(h[s]) /\ is_dynamic(hp[h[s]].inner)
    /\ hp[hp[h[s]].inner].inner = SentinelBits(sa)
    /\ sb # sa
    /\ Is(hp, h[s], SentinelBits(sa))
    /\ Is(hp, h[s], hp[h[s]].inner)
    /\ ~Is(hp, h[s], SentinelBits(sb))
    /\ ~Is(hp, h[s], 0)

\* What const As<T> reads through a handle: the payload value, or NoPayload.
NoPayload == -1
PayloadSeen(heap, bits, T) ==
  IF AsConst(heap, bits, T) = NullImpl THEN NoPayload
  ELSE heap[AsConst(heap, bits, T)].pval

\* What every step of mutable As<T>(c) leaves alone: As holds a reference
\* to c only, so no other variable changes, none is constructed or destroyed,
\* and c itself keeps its node or moves to the clone just allocated.
MutableAsFrame(c) ==
  /\ h[c] # Dead
  /\ \A x \in Slots \ {c} : h'[x] = h[x]
  /\ h'[c] \in {h[c], Alloc(hp)}

(***************************************************************************)
(* C3.  Copy-on-write isolation: when mutable As<T>(c) finds a payload and *)
(* the caller writes w through the pointer, const As<T> on every other     *)
(* handle that existed at the call (the other variables and every handle   *)
(* of their chains) still reads what it read before, and As<T>(c) reads w. *)
(***************************************************************************)
C3_CopyOnWriteIsolation ==
  [][\A c \in Slots :
       MutableAsFrame(c) =>
         \A T \in PayTypes :
           AsConst(hp, h[c], T) # NullImpl =>
             \A w \in PayVals :
               MutableAs(c, T, w) =>
                 /\ PayloadSeen(hp', h'[c], T) = w
                 /\ \A x \in LiveSlots \ {c} :
                      \A l \in Layers(h[x]) :
                        PayloadSeen(hp', l, T) = PayloadSeen(hp, l, T)]_vars

\* Two variables whose chains both carry the payload one layer down, with
\* different values: one of them was written through mutable As.
C3_Witness ==
  \E T \in PayTypes :
    /\ LiveSlots = Slots
    /\ \A s \in Slots :
         /\ is_dynamic(h[s])
         /\ AsConst(hp, h[s], T) = hp[h[s]].inner
    /\ PayloadSeen(hp, h[1], T) # PayloadSeen(hp, h[2], T)

\* The handles that reference the node n: variables, and inner_ members of
\* live nodes.
SlotRefs(n) == {s \in LiveSlots : h[s] = n}
InnerRefs(n) == {m \in LiveNodes : hp[m].inner = n}

(***************************************************************************)
(* C4.  The ref_count of every live dynamic node equals the number of live *)
(* handles that point to it: the program's variables plus the inner_       *)
(* members of live nodes.                                                  *)
(***************************************************************************)
C4_RefCountEqualsHandles ==
  \A n \in LiveNodes :
    hp[n].rc = Cardinality(SlotRefs(n)) + Cardinality(InnerRefs(n))

\* A node shared by a variable and by the inner_ of another node.
C4_Witness ==
  \E n \in LiveNodes :
    /\ hp[n].rc = 2
    /\ Cardinality(SlotRefs(n)) = 1
    /\ Cardinality(InnerRefs(n)) = 1

(***************************************************************************)
(* C5.  Node lifetime: no node is deleted twice or touched after its       *)
(* deletion; no live handle references memory that holds no node; a node   *)
(* stays allocated only while some live handle references it, so it is     *)
(* deleted at the step that removes its last handle; once every variable   *)
(* is destroyed no dynamic node remains.                                   *)
(***************************************************************************)
C5_NodeLifetime ==
  /\ \A a \in Addrs : hp[a].st # "corrupt"
  /\ \A s \in LiveSlots : is_dynamic(h[s]) => hp[h[s]].st = "live"
  /\ \A m \in LiveNodes : is_dynamic(hp[m].inner) => hp[hp[m].inner].st = "live"
  /\ \A n \in LiveNodes : SlotRefs(n) \cup InnerRefs(n) # {}
  /\ (LiveSlots = {} => LiveNodes = {})

\* A variable assigned from its own inner link: it now holds the only
\* reference to the node at the second address, and the node that wrapped it,
\* at the first address, has been deleted.
C5_Witness ==
  \E s \in LiveSlots :
    /\ is_dynamic(h[s])
    /\ hp[h[s]].rc = 1
    /\ \E a \in Addrs : a < h[s] /\ hp[a].st = "free"

(***************************************************************************)
(* Concurrent copies and destructions.                                     *)
(***************************************************************************)
\* A handle is live from the end of its constructor to the start of its
\* destructor: the copy whose add_ref is still to come is under construction.
Constructing(t, i) == pc[t] = "copy_add_ref" /\ reg[t].slot = i
ThreadHandles(n) ==
  {x \in Threads \X ThreadSlots : th[x[1]][x[2]] = n /\ ~Constructing(x[1], x[2])}
Deleters(n) == {t \in Threads : pc[t] = "dtor_delete" /\ reg[t].impl = n}

\* C6: under every interleaving of threads that copy and destroy their own
\* handles to one shared node, the count of the node equals the number of
\* live handles; the node is freed once (never touched after it is freed),
\* by the one thread whose release took the count from 1 to 0; it is never
\* freed while a thread holds a handle; it is freed when the threads are done
\* and no handle is left.
C6_ConcurrentCopyDestroy ==
  /\ hp[SharedNode].st \in {"live", "free"}
  /\ hp[SharedNode].st = "live" =>
       hp[SharedNode].rc = Cardinality(ThreadHandles(SharedNode))
  /\ hp[SharedNode].st = "free" =>
       /\ \A t \in Threads, i \in ThreadSlots : th[t][i] # SharedNode
       /\ Deleters(SharedNode) = {}
  /\ Cardinality(Deleters(SharedNode)) <= 1
  /\ Deleters(SharedNode) # {} =>
       /\ hp[SharedNode].st = "live" /\ hp[SharedNode].rc = 0
       /\ \A t \in Threads, i \in ThreadSlots : th[t][i] # SharedNode
  /\ (ThreadHandles(SharedNode) = {} /\ \A t \in Threads : pc[t] = "idle") =>
       hp[SharedNode].st = "free"

C6_Witness ==
  /\ hp[SharedNode].st = "free"
  /\ \A t \in Threads : pc[t] = "idle"

\* C7: with mutable As<T> running concurrently on distinct handles that share
\* a node, a handle of thread t reads the original payload or the value t
\* wrote, and a node whose count has reached zero is being deleted by some
\* thread.
C7_ConcurrentCowLocalAndFreed ==
  /\ \A t \in Threads, i \in ThreadSlots :
       (th[t][i] # Dead /\ is_dynamic(th[t][i])) =>
         /\ hp[th[t][i]].st = "live"
         /\ hp[th[t][i]].pval \in {0, t}
  /\ \A n \in Addrs :
       (hp[n].st = "live" /\ hp[n].rc = 0) => Deleters(n) # {}

(***************************************************************************)
(* Decoding.  The records of an input are described here by offsets into   *)
(* the byte string, independently of the reader of the decoder.            *)
(***************************************************************************)
Incomplete == -1
DeclaredCount == FromBytes(SubSeq(input, 1, 4))
\* The offset just after the length-prefixed field that starts at offset pos,
\* or Incomplete when its prefix is cut short or declares more than remains.
FieldEnd(data, pos) ==
  IF pos = Incomplete \/ pos + 4 > Len(data) THEN Incomplete
  ELSE LET u == FromBytes(SubSeq(data, pos + 1, pos + 4))
       IN  IF u.hi > 0 \/ pos + 4 + u.lo > Len(data) THEN Incomplete
           ELSE pos + 4 + u.lo
FieldBytes(data, pos) == SubSeq(data, pos + 5, FieldEnd(data, pos))
RecordEnd(data, pos) == FieldEnd(data, FieldEnd(data, FieldEnd(data, pos)))
\* The offsets of the complete records that follow one another from pos, at
\* most k of them.
RECURSIVE RecordsFrom(_, _, _)
RecordsFrom(data, pos, k) ==
  IF k = 0 \/ RecordEnd(data, pos) = Incomplete THEN << >>
  ELSE <<pos>> \o RecordsFrom(data, RecordEnd(data, pos), k - 1)
\* The complete records among the declared ones.
CompleteRecords ==
  RecordsFrom(input, 4, IF U32Greater(DeclaredCount, MaxInputLen)
                          THEN MaxInputLen ELSE DeclaredCount.lo)
ChainLength(bits) == IF bits = 0 THEN 0 ELSE Len(LayerTexts(bits))

\* C8 (as stated): Deserialize returns Nil whenever the input is shorter than
\* the header, the declared count is zero, or some declared layer has a
\* length prefix that is missing or declares more than remains, also after
\* earlier layers decoded.
C8_NilOnAnyFailedRead ==
  \A s \in Slots :
    h[s] # Dead =>
      ((\/ Len(input) < 4
        \/ DeclaredCount = U32Zero
        \/ U32Greater(DeclaredCount, Len(CompleteRecords))) => h[s] = 0)

\* C8 (amended): Deserialize returns Nil exactly when the input is shorter
\* than the header, the declared count is zero, or the first layer has a
\* length prefix that is missing or declares more than remains; a failed
\* read in a later layer leaves the result non-nil.
C8_NilIffFirstLayerFails ==
  \A s \in Slots :
    h[s] # Dead =>
      (h[s] = 0 <=> (\/ Len(input) < 4
                     \/ DeclaredCount = U32Zero
                     \/ RecordEnd(input, 4) = Incomplete))

C8_Witness ==
  \E s \in Slots :
    /\ h[s] = 0 /\ Len(input) >= 12
    /\ DeclaredCount # U32Zero
    /\ RecordEnd(input, 4) = Incomplete

\* The input of the test Deserialize_MaliciousCount.
MaliciousCount == ToBytes(UINT32_MAX) \o [i \in 1..12 |-> 0]

\* C9: when more layers are declared than complete records are present, the
\* loop decodes the complete records and stops in the trip after them; the
\* result is Nil iff no record is complete, and otherwise the chain whose
\* layers are the messages of the complete records, in order.  For a count of
\* UINT32_MAX and one all-zero record: one layer, empty message.
C9_ChainOfCompleteRecords ==
  \A s \in Slots :
    (h[s] # Dead /\ Len(input) >= 4
       /\ U32Greater(DeclaredCount, Len(CompleteRecords))) =>
      /\ dz.iters = Len(CompleteRecords) + 1
      /\ h[s] = 0 <=> CompleteRecords = << >>
      /\ h[s] # 0 =>
           LayerTexts(h[s]) =
             [i \in 1..Len(CompleteRecords) |->
                Text(FieldBytes(input, CompleteRecords[i]))]
      /\ input = MaliciousCount =>
           /\ h[s] # 0 /\ unwrap(hp, h[s]) = NullPtr
           /\ message(hp, h[s]) = << >>

C9_Witness ==
  \E s \in Slots : h[s] # Dead /\ h[s] # 0 /\ input = MaliciousCount

\* C10: the storage reserved is min(count, floor(remaining / 12)), remaining
\* being the bytes after the count field; the loop makes at most
\* floor(remaining / 12) + 1 trips; the chain returned has at most
\* floor(remaining / 12) layers.
C10_ReserveAndTripsBounded ==
  \A s \in Slots :
    (h[s] # Dead /\ Len(input) >= 4) =>
      LET cap == (Len(input) - 4) \div 12
      IN  /\ dz.reserved = IF DeclaredCount.hi > 0 \/ DeclaredCount.lo > cap
                             THEN cap ELSE DeclaredCount.lo
          /\ dz.iters <= cap + 1
          /\ Len(dz.layers) <= cap
          /\ ChainLength(h[s]) <= cap

C10_Witness ==
  \E s \in Slots :
    /\ h[s] # Dead /\ Len(input) >= 4 /\ DeclaredCount = UINT32_MAX
    /\ dz.reserved = 2 /\ dz.iters = 3 /\ ChainLength(h[s]) = 2

(***************************************************************************)
(* Round trips.  In the round-trip program bytes exist only after          *)
(* Error y = Deserialize(Serialize(x)) with a non-nil x, and nothing runs  *)
(* after it: x is the first variable and y the second.                     *)
(***************************************************************************)
Tripped == input # << >> /\ h[1] # Dead /\ h[2] # Dead

\* C11: when every layer of x is serializable, Deserialize(Serialize(x)) has
\* the message of x; a Nil x gives Nil back.
C11_RoundTripMessage ==
  /\ Tripped /\ IsSerializable(hp, h[1]) => message(hp, h[2]) = message(hp, h[1])
  /\ Decode(Serialize(hp, 0)).layers = << >>

C11_Witness ==
  /\ Tripped /\ IsSerializable(hp, h[1])
  /\ unwrap(hp, h[1]) # NullPtr
  /\ hp[h[1]].ptype = "Login"
  /\ message(hp, h[2]) = <<"a", ":", " ", "a">>

\* The nodes of a non-nil chain, outermost first.
RECURSIVE ChainNodes(_)
ChainNodes(bits) ==
  IF is_sentinel(bits) THEN <<get_impl(bits)>>
  ELSE IF hp[bits].inner = 0 THEN <<bits>>
  ELSE <<bits>> \o ChainNodes(hp[bits].inner)

\* The layer of y at depth i carries the SerializedPayload made of the type
\* name and the bytes of the payload of node n.
CarriesPayloadOf(y, i, n) ==
  /\ hp[ChainNodes(y)[i]].ptype = "SerializedPayload"
  /\ hp[ChainNodes(y)[i]].pval.type_url = Text(GetTypeName(hp[n].ptype, hp[n].pval))
  /\ hp[ChainNodes(y)[i]].pval.data = SerializeAsString(hp[n].ptype, hp[n].pval)

\* C12: y = Deserialize(Serialize(x)) has as many layers as x, the same what()
\* at every depth, and for every layer of x with a WireSerializable payload a
\* SerializedPayload at the same depth with the payload's type name and
\* bytes, whatever those two strings are.
C12_RoundTripStructure ==
  Tripped =>
    /\ Len(ChainNodes(h[2])) = Len(ChainNodes(h[1]))
    /\ LayerTexts(h[2]) = LayerTexts(h[1])
    /\ \A i \in 1..Len(ChainNodes(h[1])) :
         (HasPayload(hp, ChainNodes(h[1])[i])
            /\ WireSerializable(hp[ChainNodes(h[1])[i]].ptype)) =>
           CarriesPayloadOf(h[2], i, ChainNodes(h[1])[i])

\* C13: IsSerializable(err) is true iff err is Nil or every layer of its chain
\* is a dynamic node whose payload, if it has one, is WireSerializable; a
\* sentinel or a payload of another type at any depth makes it false.
C13_IsSerializableIffEveryLayer ==
  \A b \in Handles :
    IsSerializable(hp, b) <=>
      (b = 0 \/ \A l \in Layers(b) :
                  /\ is_dynamic(l)
                  /\ hp[l].ptype \in {"none", "Login", "SerializedPayload"})

C13_Witness ==
  \E s \in LiveSlots :
    /\ is_dynamic(h[s]) /\ hp[h[s]].ptype = "Login"
    /\ hp[h[s]].inner # 0 /\ is_dynamic(hp[h[s]].inner)
    /\ hp[hp[h[s]].inner].ptype = "Net"
    /\ ~IsSerializable(hp, h[s])

(***************************************************************************)
(* The bytes Serialize produced for x, read as records by offsets.         *)
(***************************************************************************)
SerializableLayers(b) == SelectSeq(ChainNodes(b), LAMBDA n : is_serializable(hp, n))
RecordMessage(i) == FieldBytes(input, CompleteRecords[i])
RecordTypeId(i) == FieldBytes(input, FieldEnd(input, CompleteRecords[i]))
RecordPayload(i) ==
  FieldBytes(input, FieldEnd(input, FieldEnd(input, CompleteRecords[i])))
WirePayload(n) == HasPayload(hp, n) /\ WireSerializable(hp[n].ptype)
RECURSIVE WireLength(_)
WireLength(nodes) ==
  IF nodes = << >> THEN 0
  ELSE 12 + Len(hp[Head(nodes)].msg)
          + (IF WirePayload(Head(nodes))
               THEN Len(GetTypeName(hp[Head(nodes)].ptype, hp[Head(nodes)].pval))
                    + Len(SerializeAsString(hp[Head(nodes)].ptype, hp[Head(nodes)].pval))
               ELSE 0)
          + WireLength(Tail(nodes))

\* C14: a sentinel layer or a layer whose payload is not WireSerializable
\* contributes no record to the output of Serialize and is not counted: the
\* count and the records are those of the serializable layers.
C14_SkipsNonSerializableLayers ==
  Tripped =>
    /\ DeclaredCount = U32(0, Len(SerializableLayers(h[1])))
    /\ Len(CompleteRecords) = Len(SerializableLayers(h[1]))
    /\ \A i \in 1..Len(CompleteRecords) :
         RecordMessage(i) = AsBytes(hp[SerializableLayers(h[1])[i]].msg)

C16_FailedResultHoldsError ==
  \A r \in Results :
    (rs[r].alive /\ ~rs[r].has_value) => rs[r].error # 0

(***************************************************************************)
(* Equality and moves.                                                     *)
(***************************************************************************)
SameNode(a, b) == (a = 0 /\ b = 0) \/ (a # 0 /\ b # 0 /\ get_impl(a) = get_impl(b))
\* Nodes as New makes them: alive, without inner error.
NewNodes == {n \in LiveNodes : hp[n].inner = 0}

\* C17: two handles compare == iff they reference the same node or are both
\* Nil; a copy is == to its source; two live nodes made by separate New calls
\* with the same text are not == and do not Is-match in either direction.
C17_EqualityIsIdentity ==
  /\ [](\A a \in Handles, b \in Handles : ErrorEq(a, b) <=> SameNode(a, b))
  /\ [](\A n \in NewNodes, k \in NewNodes :
          (n # k /\ hp[n].msg = hp[k].msg) =>
            ~ErrorEq(n, k) /\ ~Is(hp, n, k) /\ ~Is(hp, k, n))
  /\ [][\A d \in Slots, s \in Slots :
          CopyConstruct(d, s) => ErrorEq(h'[d], h'[s])]_vars

C17_Witness ==
  \E s \in LiveSlots, x \in LiveSlots :
    /\ h[s] \in NewNodes /\ h[x] \in NewNodes
    /\ h[s] # h[x] /\ hp[h[s]].msg = hp[h[x]].msg

\* Error d = std::move(s) or d = std::move(s), for two different variables.
MoveStep(d, s) == d # s /\ (MoveConstruct(d, s) \/ MoveAssign(d, s))
\* What every such step needs: a source that is alive, a changed destination.
MoveFrame(d, s) == d # s /\ h[s] # Dead /\ (h'[d] # h[d] \/ h'[s] # h[s])
\* The node the variable d referenced before a move assignment was released
\* once: freed if d held the last reference, one reference less otherwise.
ReleasedOnce(d) ==
  (h[d] # Dead /\ is_dynamic(h[d])) =>
    IF hp[h[d]].rc = 1 THEN hp'[h[d]].st = "free"
    ELSE hp'[h[d]].st = "live" /\ hp'[h[d]].rc = hp[h[d]].rc - 1

\* C18 (as stated): a move from s into another variable d leaves d referencing
\* the node s referenced, leaves s Nil and leaves that node's count unchanged;
\* the node d referenced before a move assignment is released exactly once.
C18_MoveKeepsCount ==
  [][\A d \in Slots, s \in Slots :
       MoveFrame(d, s) =>
         (MoveStep(d, s) =>
            /\ h'[d] = h[s] /\ h'[s] = 0
            /\ is_dynamic(h[s]) =>
                 hp'[h[s]].st = "live" /\ hp'[h[s]].rc = hp[h[s]].rc
            /\ ReleasedOnce(d))]_vars

\* C18 (amended): as above, but the count of the moved node is unchanged only
\* when the chain d referenced before does not hold that node; when d
\* referenced that very node its count drops by one (the reference d gave
\* up), and it never changes by more than that one.
C18_MoveTransfersReference ==
  [][\A d \in Slots, s \in Slots :
       MoveFrame(d, s) =>
         (MoveStep(d, s) =>
            /\ h'[d] = h[s] /\ h'[s] = 0
            /\ is_dynamic(h[s]) =>
                 /\ hp'[h[s]].st = "live"
                 /\ hp'[h[s]].rc \in {hp[h[s]].rc, hp[h[s]].rc - 1}
                 /\ (h[d] = Dead \/ h[s] \notin Layers(h[d])) =>
                      hp'[h[s]].rc = hp[h[s]].rc
                 /\ h[d] = h[s] => hp'[h[s]].rc = hp[h[s]].rc - 1
            /\ ReleasedOnce(d))]_vars

\* Two variables referenced one node and one was move-assigned to the other.
C18_Witness ==
  \E d \in LiveSlots, s \in LiveSlots :
    /\ d # s /\ h[s] = 0 /\ is_dynamic(h[d])
    /\ hp[h[d]].rc = 1 /\ hp[h[d]].inner # 0

(***************************************************************************)
(* Sentinels.                                                              *)
(***************************************************************************)
\* C19: whatever is done with sentinel handles and with chains that end in a
\* sentinel, the sentinel node stays as it was defined (same count, never
\* deleted), no dynamic node is a copy of it (the texts of the program differ
\* from the sentinels' texts), and every handle that references the sentinel
\* node compares == to the sentinel.
C19_SentinelsUntouched ==
  /\ \A a \in SentinelAddrs : hp[a] = StaticSentinelError(a)
  /\ \A n \in LiveNodes, a \in SentinelAddrs : hp[n].msg # SentinelMsg(a)
  /\ \A b \in Handles, a \in SentinelAddrs :
       (b # 0 /\ get_impl(b) = a) => ErrorEq(b, SentinelBits(a))

\* Two variables whose chains ended in one sentinel below a shared payload
\* layer, after a write through mutable As on one of them.
C19_Witness ==
  \E a \in SentinelAddrs :
    /\ LiveSlots = Slots
    /\ \A s \in Slots :
         is_dynamic(h[s]) /\ hp[h[s]].inner = SentinelBits(a)
    /\ h[1] # h[2]
    /\ hp[h[1]].pval # hp[h[2]].pval

\* The nodes of a non-nil chain in the heap given, outermost first.
RECURSIVE ChainNodesIn(_, _)
ChainNodesIn(heap, bits) ==
  IF is_sentinel(bits) THEN <<get_impl(bits)>>
  ELSE IF heap[bits].inner = 0 THEN <<bits>>
  ELSE <<bits>> \o ChainNodesIn(heap, heap[bits].inner)

\* The depths of the layers of a chain that own a payload of type T.
DepthsCarrying(heap, bits, T) ==
  IF bits = 0 THEN {}
  ELSE {i \in DOMAIN ChainNodesIn(heap, bits) :
          heap[ChainNodesIn(heap, bits)[i]].ptype = T}

\* The least depth of a non-empty set of depths.
Outermost(depths) == CHOOSE i \in depths : \A j \in depths : i <= j

\* The depth at which a chain holds the node given.
DepthOf(heap, bits, node) ==
  CHOOSE i \in DOMAIN ChainNodesIn(heap, bits) :
    ChainNodesIn(heap, bits)[i] = node

\* Const As<T> on the handle b answers with the outermost layer of type T.
ConstAsFindsOutermost(b, T) ==
  IF DepthsCarrying(hp, b, T) = {}
    THEN AsConst(hp, b, T) = NullImpl
    ELSE AsConst(hp, b, T) =
           ChainNodesIn(hp, b)[Outermost(DepthsCarrying(hp, b, T))]

\* Mutable As<T> on the variable s, when it returns (the clones it needs
\* are allocated): non-none exactly when const As<T> is, and the payload it
\* points at has the value and the depth of the one const As<T> finds.
MutableAsAgrees(s, T) ==
  LET r == AsMutable(hp, h, s, T)
      c == AsConst(hp, h[s], T)
  IN ~r.oom =>
       /\ (r.found = NullImpl) <=> (c = NullImpl)
       /\ r.found # NullImpl =>
            /\ r.hp[r.found].ptype = T
            /\ r.hp[r.found].pval = hp[c].pval
            /\ r.found \in {ChainNodesIn(r.hp, r.h[s])[i] :
                              i \in DOMAIN ChainNodesIn(r.hp, r.h[s])}
            /\ DepthOf(r.hp, r.h[s], r.found) = DepthOf(hp, h[s], c)

(***************************************************************************)
(* C20.  Const As<T>(h) returns the payload of the outermost layer of h's  *)
(* chain whose payload type is T, and none exactly when no layer carries a *)
(* payload of type T (h Nil, a chain ending in a sentinel without T, only  *)
(* payloads of other types).  Mutable As<T>(h) returns non-none exactly    *)
(* when const As<T>(h) does, and points at a payload with the same value   *)
(* at the same depth.                                                      *)
(***************************************************************************)
C20_AsFindsOutermostLayer ==
  /\ \A b \in Handles, T \in PayTypes : ConstAsFindsOutermost(b, T)
  /\ \A s \in LiveSlots, T \in PayTypes : MutableAsAgrees(s, T)

\* A shared chain whose outermost layer has no payload and whose second layer
\* carries T: const As<T> stops at the second layer and mutable As<T> answers
\* with a clone of it.
C20_Witness ==
  \E s \in LiveSlots, T \in PayTypes :
    /\ is_dynamic(h[s])
    /\ use_count(hp, h[s]) > 1
    /\ hp[h[s]].ptype = "none"
    /\ Cardinality(DepthsCarrying(hp, h[s], T)) >= 1
    /\ AsConst(hp, h[s], T) = ChainNodesIn(hp, h[s])[2]
    /\ ~AsMutable(hp, h, s, T).oom
    /\ AsMutable(hp, h, s, T).found \notin {NullImpl, AsConst(hp, h[s], T)}

(***************************************************************************)
(* C21.  For every message m, the empty one and lengths on both sides of   *)
(* the 23-byte inline threshold included, New(m) is non-nil, New(m).what() *)
(* is m and New(m).message() is m; Wrap(e, m).what() is m for every handle *)
(* e (Nil, sentinel, dynamic; copied or moved).                            *)
(***************************************************************************)
C21_NewKeepsMessage ==
  [][(\A d \in Slots, m \in ThresholdMsgs :
        New(d, m) =>
          /\ h'[d] # 0
          /\ what(hp', h'[d]) = m
          /\ message(hp', h'[d]) = m)
     /\
     (\A d \in Slots, s \in Slots, m \in ThresholdMsgs, mv \in BOOLEAN :
        Wrap(d, s, m, mv) => what(hp', h'[d]) = m)]_vars

\* A text of SSO_CAPACITY + 1 chars wrapped around one of SSO_CAPACITY chars.
C21_Witness ==
  \E s \in LiveSlots :
    /\ is_dynamic(h[s])
    /\ what(hp, h[s]) = Chars(SSO_CAPACITY + 1)
    /\ is_dynamic(hp[h[s]].inner)
    /\ what(hp, hp[h[s]].inner) = Chars(SSO_CAPACITY)

\* What the claim says of a Nil handle.
BehavesAsNil(heap, b) ==
  /\ ~OperatorBool(b)
  /\ ErrorEq(b, Nil)
  /\ what(heap, b) = << >>
  /\ unwrap(heap, b) = NullPtr
  /\ message(heap, b) = NilText

\* The handles of a state behave as the claim says.
NilHandlesBehave ==
  /\ BehavesAsNil(hp, Nil)
  /\ \A b \in Handles : (get_impl(b) = NullImpl) => BehavesAsNil(hp, b)
  /\ \A b \in Handles : (get_impl(b) # NullImpl) => OperatorBool(b)
  /\ \A a \in Handles, b \in Handles :
       (~OperatorBool(a) /\ ~OperatorBool(b)) => ErrorEq(a, b)

\* The handle a step default-constructs, and the one it moves from (into
\* another variable or into the parameter of Wrap), is Nil after the step.
NilAfterDefaultCtor ==
  \A d \in Slots : DefaultCtor(d) => BehavesAsNil(hp', h'[d])
NilAfterMove ==
  \A d \in Slots, s \in Slots :
    (d # s /\ (MoveConstruct(d, s) \/ MoveAssign(d, s)))
      => BehavesAsNil(hp', h'[s])
NilAfterWrap ==
  \A d \in Slots, s \in Slots, m \in Msgs :
    Wrap(d, s, m, TRUE) => BehavesAsNil(hp', h'[s])

(***************************************************************************)
(* C22.  Every Nil handle (default-constructed, Error::Nil(), moved-from)  *)
(* converts to false, compares == to every other Nil handle, has what()    *)
(* == "", Unwrap() == none and message() == "(nil)"; every handle that     *)
(* references a node converts to true.                                     *)
(***************************************************************************)
C22_NilBehaviour ==
  []NilHandlesBehave
    /\ [][NilAfterDefaultCtor /\ NilAfterMove /\ NilAfterWrap]_vars

\* A Nil variable beside a chain whose inner handle references a sentinel.
C22_Witness ==
  /\ h[1] = 0
  /\ is_dynamic(h[2])
  /\ is_sentinel(hp[h[2]].inner)

\* The Result b is a copy of the Result a: same ok(), and an equal value or
\* an identical error.
SameResult(a, b) ==
  /\ ok(a) = ok(b)
  /\ IF ok(a) THEN value(a) = value(b) ELSE ErrorEq(error(a), error(b))

\* A copy from o into r (r # o) left o as it was, and the node of o's error
\* alive with one reference more, unless r gave up a reference to that node.
SourceKept(r, o) ==
  /\ rs'[o] = rs[o]
  /\ (~ok(rs[o]) /\ is_dynamic(error(rs[o]))) =>
       /\ hp'[error(rs[o])].st = "live"
       /\ use_count(hp', error(rs[o])) =
            use_count(hp, error(rs[o])) + 1
              - (IF rs[r].alive /\ ~ok(rs[r]) /\ error(rs[r]) = error(rs[o])
                   THEN 1 ELSE 0)

BuiltFromValue ==
  \A r \in Results, v \in ResultValues :
    ResultFromValue(r, v) => (ok(rs'[r]) /\ value(rs'[r]) = v)
BuiltFromError ==
  \A r \in Results, s \in Slots, mv \in BOOLEAN :
    ResultFromError(r, s, mv) => (~ok(rs'[r]) /\ ErrorEq(error(rs'[r]), h[s]))
CopiedResult ==
  \A r \in Results, o \in Results :
    (r # o /\ (ResultCopyConstruct(r, o) \/ ResultCopyAssign(r, o)))
      => (SameResult(rs[o], rs'[r]) /\ rs'[r].alive /\ SourceKept(r, o))

(***************************************************************************)
(* C23.  A Result<T> built from a value v has ok() == true and value() ==  *)
(* v; built from a non-nil error e it has ok() == false and error() == e   *)
(* (the same node).  Copy construction and copy assignment give the        *)
(* destination the same ok() and an equal value or identical error, leave  *)
(* the source unchanged, and work when the destination previously held the *)
(* other alternative.                                                      *)
(***************************************************************************)
C23_ResultConstructionAndCopy ==
  [][BuiltFromValue /\ BuiltFromError /\ CopiedResult]_vars

\* Two failed Results share one dynamic node that no Error variable
\* references any more.
C23_Witness ==
  /\ rs[1].alive /\ rs[2].alive
  /\ ~ok(rs[1]) /\ ~ok(rs[2])
  /\ is_dynamic(error(rs[1]))
  /\ error(rs[1]) = error(rs[2])
  /\ use_count(hp, error(rs[1])) = 2
  /\ LiveSlots = {}

(***************************************************************************)
(* C24.  Copy-assigning or move-assigning a handle to itself leaves it     *)
(* referencing the same node with the same reference count: nothing is     *)
(* released and the handle does not become Nil.                            *)
(***************************************************************************)
C24_SelfAssignmentKeepsHandle ==
  \A d \in LiveSlots :
    /\ CopyAssignEffect(hp, h, d, d) = [hp |-> hp, h |-> h]
    /\ MoveAssignEffect(hp, h, d, d) = [hp |-> hp, h |-> h]

\* The only handle on a chain of two nodes, assigned to itself.
C24_Witness ==
  \E d \in LiveSlots :
    /\ is_dynamic(h[d])
    /\ use_count(hp, h[d]) = 1
    /\ is_dynamic(hp[h[d]].inner)
    /\ MoveAssignEffect(hp, h, d, d).h[d] = h[d]
    /\ use_count(CopyAssignEffect(hp, h, d, d).hp, h[d]) = 1

\* The depths of the chain of variable s at which mutable As<T>(s) leaves a
\* node other than the one that was there.
ClonedDepths(s, T) ==
  {i \in DOMAIN ChainNodesIn(hp, h[s]) :
     ChainNodesIn(AsMutable(hp, h, s, T).hp, AsMutable(hp, h, s, T).h[s])[i]
       # ChainNodesIn(hp, h[s])[i]}

\* The depth of the payload const As<T>(s) finds.
PayloadDepth(s, T) == DepthOf(hp, h[s], AsConst(hp, h[s], T))

\* Mutable As<T>(s) finds a payload and returns.
AsReturnsPayload(s, T) ==
  /\ AsConst(hp, h[s], T) # NullImpl
  /\ ~AsMutable(hp, h, s, T).oom

\* The layers of s from the outermost to depth i are referenced once each.
UnsharedDownTo(s, i) ==
  \A j \in 1..i : use_count(hp, ChainNodesIn(hp, h[s])[j]) = 1

\* C25 as stated: at most one node is cloned, the one that owns the payload,
\* and only when its reference count exceeds one; every other layer stays
\* the identical node.
C25_ClonesOwningNodeOnly ==
  \A s \in LiveSlots, T \in PayTypes :
    AsReturnsPayload(s, T) =>
      /\ ClonedDepths(s, T) \subseteq {PayloadDepth(s, T)}
      /\ ClonedDepths(s, T) # {} =>
           use_count(hp, AsConst(hp, h[s], T)) > 1

(***************************************************************************)
(* C25, amended.  A mutable As<T>(h) that finds the payload at depth k     *)
(* clones, from the outermost layer down to depth k, every layer from the  *)
(* first one whose reference count exceeds one: the clone of a layer holds *)
(* a new reference to the layer below it.  Layers above the first shared   *)
(* one, and every layer below depth k, remain the identical nodes; the     *)
(* chain keeps its length, and the clones are nodes that did not exist     *)
(* before the call.                                                        *)
(***************************************************************************)
C25_ClonesSharedPathToPayload ==
  \A s \in LiveSlots, T \in PayTypes :
    AsReturnsPayload(s, T) =>
      LET r == AsMutable(hp, h, s, T)
          before == ChainNodesIn(hp, h[s])
          after == ChainNodesIn(r.hp, r.h[s])
      IN /\ Len(after) = Len(before)
         /\ ClonedDepths(s, T) =
              {i \in 1..PayloadDepth(s, T) : ~UnsharedDownTo(s, i)}
         /\ \A i \in ClonedDepths(s, T) :
              /\ hp[after[i]].st = "free"
              /\ r.hp[after[i]].st = "live"
              /\ use_count(r.hp, after[i]) = 1
              /\ r.hp[after[i]].msg = hp[before[i]].msg
              /\ r.hp[before[i]].st = "live"
              /\ use_count(r.hp, before[i]) >= 1

\* Two variables share a layer without payload over the layer that owns the
\* payload: mutable As<T> clones both layers.
C25_Witness ==
  \E s \in LiveSlots, T \in PayTypes :
    /\ AsReturnsPayload(s, T)
    /\ PayloadDepth(s, T) = 2
    /\ use_count(hp, h[s]) = 2
    /\ use_count(hp, AsConst(hp, h[s], T)) = 1
    /\ ClonedDepths(s, T) = {1, 2}

(***************************************************************************)
(* C26.  If no layer of h's chain carries a payload of type T, mutable     *)
(* As<T>(h) returns none and changes nothing: h references the same node,  *)
(* no node is cloned, and every node's reference count and content are     *)
(* unchanged, even when h's nodes are shared with other handles.           *)
(***************************************************************************)
C26_AbsentPayloadChangesNothing ==
  \A s \in LiveSlots, T \in PayTypes :
    AsConst(hp, h[s], T) = NullImpl =>
      /\ AsMutable(hp, h, s, T).found = NullImpl
      /\ ~AsMutable(hp, h, s, T).oom
      /\ AsMutable(hp, h, s, T).h = h
      /\ AsMutable(hp, h, s, T).hp = hp

\* Two variables share a chain of two layers that carries a payload of
\* another type only.
C26_Witness ==
  \E s \in LiveSlots, T \in PayTypes :
    /\ is_dynamic(h[s])
    /\ use_count(hp, h[s]) = 2
    /\ is_dynamic(hp[h[s]].inner)
    /\ \E U \in PayTypes \ {T} : AsConst(hp, h[s], U) # NullImpl
    /\ AsConst(hp, h[s], T) = NullImpl
    /\ AsMutable(hp, h, s, T).found = NullImpl

\* The depth of the first layer of a chain that survives the destruction of
\* a handle on it: the first sentinel or node referenced more than once
\* (one more than the length of the chain when there is none).
FirstSurvivor(nodes) ==
  IF \E i \in DOMAIN nodes : hp[nodes[i]].st = "static" \/ hp[nodes[i]].rc > 1
    THEN CHOOSE i \in DOMAIN nodes :
           /\ hp[nodes[i]].st = "static" \/ hp[nodes[i]].rc > 1
           /\ \A j \in 1..(i - 1) :
                hp[nodes[j]].st # "static" /\ hp[nodes[j]].rc = 1
    ELSE Len(nodes) + 1

\* What the destruction of a handle on the chain nodes does to the heap.
DestroyedChain(nodes) ==
  /\ \A i \in DOMAIN nodes :
       hp'[nodes[i]] =
         IF i < FirstSurvivor(nodes) THEN FreeNode
         ELSE IF i = FirstSurvivor(nodes) /\ hp[nodes[i]].st = "live"
           THEN [hp[nodes[i]] EXCEPT !.rc = @ - 1]
         ELSE hp[nodes[i]]
  /\ \A a \in AllAddrs :
       (\A i \in DOMAIN nodes : nodes[i] # a) => hp'[a] = hp[a]

(***************************************************************************)
(* C27.  Destroying the last handle to a chain frees its nodes from the    *)
(* outermost inward up to, and not including, the first node that is still *)
(* referenced by another handle; that node's reference count drops by      *)
(* exactly one and every node further inward, and every node outside the   *)
(* chain, is left untouched.                                               *)
(***************************************************************************)
C27_DestroyFreesUnsharedPrefix ==
  [][\A s \in Slots :
       (Destroy(s) /\ h[s] # 0)
         => DestroyedChain(ChainNodesIn(hp, h[s]))]_vars

\* The only handle on a chain of three layers, about to be destroyed while
\* another variable references the second layer: the first survivor is at
\* depth two and a layer lies further inward.
C27_Witness ==
  \E s \in LiveSlots, t \in LiveSlots :
    /\ is_dynamic(h[s])
    /\ use_count(hp, h[s]) = 1
    /\ hp[h[s]].inner = h[t]
    /\ is_dynamic(h[t])
    /\ use_count(hp, h[t]) = 2
    /\ is_dynamic(hp[h[t]].inner)
    /\ FirstSurvivor(ChainNodesIn(hp, h[s])) = 2
    /\ ENABLED Destroy(s)

\* No node is among the layers of its own inner chain.
Acyclic ==
  \A n \in LiveNodes : hp[n].inner # 0 => n \notin Layers(hp[n].inner)

C29_OkChangesOnlyByAssignment ==
  [][\A r \in Results :
       (rv[r] # Dead /\ rv'[r] # Dead /\ void_ok(rv'[r]) # void_ok(rv[r]))
         => \E o \in Results \ {r} : VoidCopyAssign(r, o) \/ VoidMoveAssign(r, o)]_vars

\* The handle b is a chain of the single layer m.
SingleLayer(heap, b, m) ==
  /\ OperatorBool(b)
  /\ unwrap(heap, b) = NullPtr
  /\ what(heap, b) = m
  /\ message(heap, b) = m
  /\ ~Is(heap, b, Nil)

WrapOfNil ==
  \A d \in Slots, s \in Slots, m \in WireTexts, mv \in BOOLEAN :
    (h[s] = 0 /\ Wrap(d, s, m, mv)) => SingleLayer(hp', h'[d], m)
NewPayloadOfNil ==
  \A d \in Slots, m \in WireTexts, T \in WireTypes, v \in PayVals :
    NewWithPayload(d, m, T, v) => SingleLayer(hp', h'[d], m)

(***************************************************************************)
(* C30.  Wrapping a Nil handle gives a single-layer chain: for every       *)
(* message m, Wrap(Nil, m) and NewWithPayload(m, p) are non-nil, have      *)
(* Unwrap() == none and message() == m with no separator and no "(nil)"    *)
(* text, and Is(Wrap(Nil, m), Nil) is false.                               *)
(***************************************************************************)
C30_WrapOfNilIsSingleLayer ==
  [][WrapOfNil /\ NewPayloadOfNil]_vars

\* A Nil variable (moved from, or the result of a failed Deserialize) that
\* the program is about to wrap with the empty text into a free variable.
C30_Witness ==
  \E d \in Slots, s \in Slots :
    /\ h[d] = Dead
    /\ h[s] = 0
    /\ ENABLED WireWrap(d, s, << >>)

====
